---- MODULE Spec2Model ----
(***************************************************************************)
(* Verification model of farm-design-system: the design-token pipeline of  *)
(* packages/theme (reference resolution, tree flattening, theme            *)
(* normalisation, candidate selection, integrity validation, createTheme,  *)
(* the generated mappings and their coverage check), the Modal of          *)
(* packages/ui, and the providers that write data-theme to the document.   *)
(*                                                                         *)
(* Strings are sequences of atoms.  An atom is one character that the      *)
(* code treats specially ("{", "}", " ", ".", "-") or an indivisible word  *)
(* of other characters ("Grey", "18", "#ffffff", "constructor").           *)
(* JavaScript values are records [t, s, e]: t is the typeof-like tag, s    *)
(* the atoms of a string, e the own entries <<[k, v], ...>> of an object   *)
(* in insertion order.                                                     *)
(***************************************************************************)
EXTENDS Integers, Sequences, FiniteSets, TLC

VARIABLES
    value0,      \* resolver: the value resolveTokenValue was first called with
    lookup,      \* resolver: the flat lookup object
    value,       \* resolver: argument `value` of the current invocation
    stack,       \* resolver: argument `stack` of the current invocation
    depth,       \* resolver: number of nested invocations so far
    outcome,     \* resolver: "running", "returned" or the error thrown
    result,      \* resolver: the returned string (when outcome = "returned")
    errRef,      \* resolver: the reference named by the thrown error
    entry,       \* normaliser: the program that runs ("sync", "runtime", "build")
    raw,         \* normaliser: the parsed JSON the program reads
    pc,          \* normaliser: how far the program has come
    finexUi,     \* normaliser: what resolveFinexUi(raw) returned or threw
    fileFinexUi, \* normaliser: src/finex-ui.json as written by this run
    mainError,   \* normaliser: the key-skew error thrown by main
    again,       \* normaliser: resolveFinexUi applied to its own result
    picker,      \* selection: the function called ("pickFinexKey", "pickFarmToken")
    available,   \* selection: the Set of finex keys given to pickFinexKey
    farmTokenMap,\* selection: the plain object given to pickFarmToken
    candidates,  \* selection: a bare key or an array of keys
    label,       \* selection: the label used in the error message
    picked,      \* selection: what the call returned or threw
    program,     \* theme: the program that runs ("load", "build", "sync")
    finexTheme,  \* theme: finex-ui.json, the resolved theme {light, dark}
    farmMap,     \* theme: adapters/farm-token-map.json (Farm Token -> finex key)
    antdTokenMap,      \* theme: adapters/antd-token-map.json
    antdComponentsMap, \* theme: adapters/antd-components-map.json
    phase,       \* theme: how far the program has come
    integrity,   \* theme: what the integrity validation returned or threw
    tokens,      \* theme: the exported tokens {light, dark}
    cssVars,     \* theme: the exported cssVars {light, dark}
    antdTheme,   \* theme: the exported antdTheme {light, dark}
    tailwindColors,    \* theme: the nested colour preset object
    tokensCss,   \* theme: the emitted CSS text
    themeOptions,      \* theme: the argument of the createTheme call
    themeBundle, \* theme: what createTheme returned or threw
    checkVersion,      \* coverage: what the check counts ("farm" tokens or "finex" keys)
    argv,        \* coverage: the arguments of the command line
    artifacts,   \* coverage: the JSON files the check reads
    usage,       \* coverage: the keys of the Map collectUsage returned
    unused,      \* coverage: the tokens or keys no antd mapping refers to
    checkStep,   \* coverage: how far main has come
    exitCode,    \* coverage: the exit code of the process
    modalProps,  \* modal: the props the Modal is rendered with
    uncontrolledOpen,  \* modal: the state useState(false) holds
    pendingOk,   \* modal: the onOk promises that are not settled yet
    calls,       \* modal: the callbacks invoked so far, in order
    lastEvent,   \* modal: the last thing the user did
    dataTheme,   \* document: the data-theme attribute of <html>
    themeBefore, \* document: data-theme before the first provider mounted
    providers,   \* document: the FarmProviders and what their effects captured
    prefersColor,      \* docs: the data-prefers-color attribute of <html>
    systemDark,  \* docs: matchMedia('(prefers-color-scheme: dark)').matches
    hasMatchMedia,     \* docs: whether window.matchMedia exists
    docsMode,    \* docs: the state useState(() => readMode()) holds
    docsPhase,   \* docs: "rendered" before the effects ran, then "observing"
    observerPending    \* docs: a mutation record waits for the observer callback

resolveVars == <<value0, lookup, value, stack, depth, outcome, result, errRef>>

normalizeVars == <<entry, raw, pc, finexUi, fileFinexUi, mainError, again>>

pickVars == <<picker, available, farmTokenMap, candidates, label, picked>>

themeVars ==
    <<program, finexTheme, farmMap, antdTokenMap, antdComponentsMap, phase, integrity,
      tokens, cssVars, antdTheme, tailwindColors, tokensCss, themeOptions, themeBundle>>

coverageVars == <<checkVersion, argv, artifacts, usage, unused, checkStep, exitCode>>

modalVars == <<modalProps, uncontrolledOpen, pendingOk, calls, lastEvent>>

documentVars ==
    <<dataTheme, themeBefore, providers, prefersColor, systemDark, hasMatchMedia,
      docsMode, docsPhase, observerPending>>

vars ==
    <<resolveVars, normalizeVars, pickVars, themeVars, coverageVars, modalVars, documentVars>>

\* what the steps of one part of the model leave alone
notResolveVars == <<normalizeVars, pickVars, themeVars, coverageVars, modalVars, documentVars>>
notNormalizeVars == <<resolveVars, pickVars, themeVars, coverageVars, modalVars, documentVars>>
notPickVars == <<resolveVars, normalizeVars, themeVars, coverageVars, modalVars, documentVars>>
notThemeVars == <<resolveVars, normalizeVars, pickVars, coverageVars, modalVars, documentVars>>
notCoverageVars == <<resolveVars, normalizeVars, pickVars, themeVars, modalVars, documentVars>>
notModalVars == <<resolveVars, normalizeVars, pickVars, themeVars, coverageVars, documentVars>>
notDocumentVars == <<resolveVars, normalizeVars, pickVars, themeVars, coverageVars, modalVars>>

-----------------------------------------------------------------------------
(* JavaScript values *)

Str(s) == [t |-> "string", s |-> s, e |-> <<>>]
Obj(entries) == [t |-> "object", s |-> <<>>, e |-> entries]
Undefined == [t |-> "undefined", s |-> <<>>, e |-> <<>>]
Null == [t |-> "null", s |-> <<>>, e |-> <<>>]
Arr == [t |-> "array", s |-> <<>>, e |-> <<>>]
Num == [t |-> "number", s |-> <<>>, e |-> <<>>]
\* a member of Object.prototype, e.g. the function Object.prototype.constructor
Inherited == [t |-> "function", s |-> <<>>, e |-> <<>>]

\* Property names every plain object inherits from Object.prototype.
ProtoKeys == {<<"constructor">>}

OwnKeys(obj) == {obj.e[i].k : i \in 1..Len(obj.e)}

HasOwn(obj, key) == key \in OwnKeys(obj)

GetOwn(obj, key) ==
    LET i == CHOOSE j \in 1..Len(obj.e) : obj.e[j].k = key IN obj.e[i].v

\* obj[key]: own property, else the prototype chain, else undefined.
Get(obj, key) ==
    IF HasOwn(obj, key) THEN GetOwn(obj, key)
    ELSE IF key \in ProtoKeys THEN Inherited
    ELSE Undefined

\* obj[key] = v on a plain object: overwrite in place or append.
Put(obj, key, v) ==
    IF HasOwn(obj, key)
    THEN Obj([i \in 1..Len(obj.e) |->
                IF obj.e[i].k = key THEN [k |-> key, v |-> v] ELSE obj.e[i]])
    ELSE Obj(Append(obj.e, [k |-> key, v |-> v]))

isRecord(v) == v.t = "object"

\* one [key, value] of Object.entries
Entry(key, v) == [k |-> key, v |-> v]

-----------------------------------------------------------------------------
(* Strings *)

IsSpace(c) == c = " "

RECURSIVE TrimStart(_)
TrimStart(s) ==
    IF s # <<>> /\ IsSpace(Head(s)) THEN TrimStart(Tail(s)) ELSE s

RECURSIVE TrimEnd(_)
TrimEnd(s) ==
    IF s # <<>> /\ IsSpace(s[Len(s)]) THEN TrimEnd(SubSeq(s, 1, Len(s) - 1)) ELSE s

\* String.prototype.trim
Trim(s) == TrimEnd(TrimStart(s))

\* /^\{(.+)\}$/.exec(t): the captured group, or <<>> for null.
\* (.+) needs one character at least, so a match is never empty and <<>>
\* is exactly the falsy result tested by `if (!ref)`.
MatchBraces(t) ==
    IF Len(t) >= 3 /\ t[1] = "{" /\ t[Len(t)] = "}"
    THEN SubSeq(t, 2, Len(t) - 1)
    ELSE <<>>

\* normalizeRef with the trim() call dropped
normalizeRefNoTrim(v) == MatchBraces(v)

\* normalizeRef: /^\{(.+)\}$/.exec(value.trim())
normalizeRef(v) == MatchBraces(Trim(v))

InSeq(x, s) == \E i \in 1..Len(s) : s[i] = x

-----------------------------------------------------------------------------
(* Reference resolver *)

\* stack.includes(ref) with the cycle check dropped
NoCycleCheck(stk, ref) == FALSE

\* stack.includes(ref)
StackIncludes(stk, ref) == InSeq(ref, stk)

Thrown(kind, ref, stk) == [kind |-> kind, val |-> <<>>, ref |-> ref, stack |-> stk]

\* lines 119-123: `next` read, then the unresolved error or the recursive call
ResolveNext(next, ref, stk) ==
    IF next.t = "undefined"
    THEN Thrown("UnresolvedReferenceError", ref, stk)
    ELSE [kind |-> "recurse", val |-> next, ref |-> ref, stack |-> Append(stk, ref)]

\* lines 115-123, with ref = normalizeRef(value)
ResolveRef(ref, s, lk, stk) ==
    IF ref = <<>>
    THEN [kind |-> "returned", val |-> s, ref |-> <<>>, stack |-> stk]
    ELSE IF StackIncludes(stk, ref)
    THEN Thrown("CycleError", ref, stk)
    ELSE ResolveNext(Get(lk, ref), ref, stk)

\* One invocation of resolveTokenValue(value, lookup, stack): what it does
\* before it returns, throws or calls itself again.  A value that is no
\* string has no trim(): normalizeRef throws a TypeError.
resolveCall(v, lk, stk) ==
    IF v.t # "string"
    THEN Thrown("TypeError", <<>>, stk)
    ELSE ResolveRef(normalizeRef(v.s), v.s, lk, stk)

\* resolveTokenValue as a function: the final outcome of the recursion.
RECURSIVE resolveTokenValue(_, _, _)
RECURSIVE ResolveContinue(_, _)
resolveTokenValue(v, lk, stk) == ResolveContinue(resolveCall(v, lk, stk), lk)

\* `return resolveTokenValue(next, lookup, [...stack, ref])`
ResolveContinue(r, lk) ==
    IF r.kind = "recurse" THEN resolveTokenValue(r.val, lk, r.stack) ELSE r

-----------------------------------------------------------------------------
(* Tree flattener *)

\* isTokenLeaf: an object whose `value` is a string
isTokenLeaf(node) == isRecord(node) /\ Get(node, <<"value">>).t = "string"

\* Array.prototype.join on strings
RECURSIVE Join(_, _)
Join(parts, sep) ==
    IF parts = <<>> THEN <<>>
    ELSE IF Len(parts) = 1 THEN parts[1]
    ELSE parts[1] \o <<sep>> \o Join(Tail(parts), sep)

\* s.replaceAll(/\s+/g, rep): every run of white space becomes one rep
RECURSIVE ReplaceSpaceRuns(_, _)
ReplaceSpaceRuns(s, rep) ==
    IF s = <<>> THEN <<>>
    ELSE IF IsSpace(Head(s)) THEN <<rep>> \o ReplaceSpaceRuns(TrimStart(s), rep)
    ELSE <<Head(s)>> \o ReplaceSpaceRuns(Tail(s), rep)

\* toFinexKey: groups get white space collapsed to "-", the leaf to " ",
\* all joined by "-"
toFinexKey(pathParts) ==
    IF Len(pathParts) = 0 THEN <<>>
    ELSE Join(Append([i \in 1..(Len(pathParts) - 1) |->
                        ReplaceSpaceRuns(Trim(pathParts[i]), "-")],
                     ReplaceSpaceRuns(Trim(pathParts[Len(pathParts)]), " ")),
              "-")

\* collectTokenValues(tree, prefixParts, out): the lookup `a.b.c -> value`
\* of every leaf, whatever its declared type.
RECURSIVE collectTokenValues(_, _, _)
RECURSIVE CollectValuesEntries(_, _, _, _)
RECURSIVE CollectValuesEntry(_, _, _)
collectTokenValues(tree, prefixParts, out) ==
    IF ~isRecord(tree) THEN out ELSE CollectValuesEntries(tree.e, 1, prefixParts, out)

\* `for (const [key, value] of Object.entries(tree))`, from entry i on
CollectValuesEntries(entries, i, prefixParts, out) ==
    IF i > Len(entries) THEN out
    ELSE CollectValuesEntries(entries, i + 1, prefixParts,
            CollectValuesEntry(entries[i].v, Append(prefixParts, entries[i].k), out))

\* the loop body for one entry
CollectValuesEntry(val, nextParts, out) ==
    IF isTokenLeaf(val) THEN Put(out, Join(nextParts, "."), Get(val, <<"value">>))
    ELSE IF isRecord(val) THEN collectTokenValues(val, nextParts, out)
    ELSE out

\* `if (value.type !== 'color') continue;` of the sync script
SkipsLeafColorOnly(leaf) == Get(leaf, <<"type">>) # Str(<<"color">>)

\* the runtime loader and the build script have no such line
SkipsLeafNever(leaf) == FALSE

SkipsLeaf(filtered, leaf) ==
    IF filtered THEN SkipsLeafColorOnly(leaf) ELSE SkipsLeafNever(leaf)

\* `out[finexKey] = resolveTokenValue(...)`: r is what the call returned or
\* threw.  acc is [kind, out, ref]: kind = "ok" while nothing has been
\* thrown, else the error that propagates out of the traversal.
StoreResolved(acc, finexKey, r) ==
    IF r.kind = "returned"
    THEN [acc EXCEPT !.out = Put(acc.out, finexKey, Str(r.val))]
    ELSE [kind |-> r.kind, out |-> acc.out, ref |-> r.ref]

\* collectThemeTokens(tree, baseLookup, prefixParts, out)
RECURSIVE CollectTheme(_, _, _, _, _)
RECURSIVE CollectThemeEntries(_, _, _, _, _, _)
RECURSIVE CollectThemeEntry(_, _, _, _, _)
CollectTheme(filtered, tree, baseLookup, prefixParts, acc) ==
    IF ~isRecord(tree) THEN acc
    ELSE CollectThemeEntries(filtered, tree.e, 1, baseLookup, prefixParts, acc)

\* `for (const [key, value] of Object.entries(tree))`, from entry i on
CollectThemeEntries(filtered, entries, i, baseLookup, prefixParts, acc) ==
    IF i > Len(entries) \/ acc.kind # "ok" THEN acc
    ELSE CollectThemeEntries(filtered, entries, i + 1, baseLookup, prefixParts,
            CollectThemeEntry(filtered, entries[i].v, Append(prefixParts, entries[i].k),
                              baseLookup, acc))

\* the loop body for one entry
CollectThemeEntry(filtered, val, nextParts, baseLookup, acc) ==
    IF isTokenLeaf(val)
    THEN IF SkipsLeaf(filtered, val) THEN acc
         ELSE StoreResolved(acc, toFinexKey(nextParts),
                            resolveTokenValue(Get(val, <<"value">>), baseLookup, <<>>))
    ELSE IF isRecord(val) THEN CollectTheme(filtered, val, baseLookup, nextParts, acc)
    ELSE acc

EmptyAcc == [kind |-> "ok", out |-> Obj(<<>>), ref |-> <<>>]

\* collectThemeTokens of sync-src-assets.ts: colour leaves only
collectThemeTokens(tree, baseLookup) == CollectTheme(TRUE, tree, baseLookup, <<>>, EmptyAcc)

\* collectThemeTokens of tokens.ts and of build-assets.ts: every leaf
collectThemeTokensUnfiltered(tree, baseLookup) ==
    CollectTheme(FALSE, tree, baseLookup, <<>>, EmptyAcc)

-----------------------------------------------------------------------------
(* Theme normaliser *)

\* isFinexUiResolved with the property names misspelt
isFinexUiResolvedWrongCase(rawValue) ==
    isRecord(rawValue) /\ isRecord(Get(rawValue, <<"Light">>))
                       /\ isRecord(Get(rawValue, <<"Dark">>))

\* isFinexUiResolved: object-valued light and dark
isFinexUiResolved(rawValue) ==
    isRecord(rawValue) /\ isRecord(Get(rawValue, <<"light">>))
                       /\ isRecord(Get(rawValue, <<"dark">>))

\* /\/Light$/.test(k), /\/Dark$/.test(k)
EndsWith(key, suffix) == key # <<>> /\ key[Len(key)] = suffix

\* the position of the first key with the suffix, 0 when there is none
RECURSIVE FindIndex(_, _, _)
FindIndex(entries, i, suffix) ==
    IF i > Len(entries) THEN 0
    ELSE IF EndsWith(entries[i].k, suffix) THEN i
    ELSE FindIndex(entries, i + 1, suffix)

KeyAt(entries, i) == IF i = 0 THEN <<>> ELSE entries[i].k

\* keys.find(k => re.test(k)): the first matching key, <<>> for undefined
FindKey(rawValue, suffix) == KeyAt(rawValue.e, FindIndex(rawValue.e, 1, suffix))

\* `!lightKey || !darkKey` written with && instead
GroupMissingBoth(lightKey, darkKey) == lightKey = <<>> /\ darkKey = <<>>

\* `!lightKey || !darkKey`
GroupMissing(lightKey, darkKey) == lightKey = <<>> \/ darkKey = <<>>

Failure(kind, ref) == [kind |-> kind, theme |-> Undefined, ref |-> ref]

\* raw[key]; raw[undefined] reads the property "undefined"
GroupOf(rawValue, key) ==
    IF key = <<>> THEN Get(rawValue, <<"undefined">>) ELSE Get(rawValue, key)

\* `return { light, dark }`, unless collecting dark has thrown
ThemeOf(light, dark) ==
    IF dark.kind # "ok" THEN Failure(dark.kind, dark.ref)
    ELSE [kind |-> "ok",
          theme |-> Obj(<< [k |-> <<"light">>, v |-> light.out],
                           [k |-> <<"dark">>, v |-> dark.out] >>),
          ref |-> <<>>]

\* `const dark = collectThemeTokens(raw[darkKey], baseLookup)`, unless
\* collecting light has thrown
FlattenDark(filtered, light, darkTree, baseLookup) ==
    IF light.kind # "ok" THEN Failure(light.kind, light.ref)
    ELSE ThemeOf(light, CollectTheme(filtered, darkTree, baseLookup, <<>>, EmptyAcc))

\* `const light = collectThemeTokens(raw[lightKey], baseLookup)` and on
FlattenGroups(filtered, lightTree, darkTree, baseLookup) ==
    FlattenDark(filtered, CollectTheme(filtered, lightTree, baseLookup, <<>>, EmptyAcc),
                darkTree, baseLookup)

\* from `if (!lightKey || !darkKey)` on
ResolveGroups(filtered, rawValue, lightKey, darkKey) ==
    IF GroupMissing(lightKey, darkKey)
    THEN Failure("MissingSectionError", <<"/Light", "/Dark">>)
    ELSE FlattenGroups(filtered, GroupOf(rawValue, lightKey), GroupOf(rawValue, darkKey),
                       collectTokenValues(Get(rawValue, <<"base/base">>), <<>>, Obj(<<>>)))

\* resolveFinexUi(raw); filtered tells which collectThemeTokens it calls.
\* The thrown Errors are told apart by their message.
ResolveFinexUiWith(filtered, rawValue) ==
    IF isFinexUiResolved(rawValue) THEN [kind |-> "ok", theme |-> rawValue, ref |-> <<>>]
    ELSE IF ~isRecord(rawValue) THEN Failure("MalformedInputError", <<>>)
    ELSE IF ~isRecord(Get(rawValue, <<"base/base">>))
    THEN Failure("MissingSectionError", <<"base/base">>)
    ELSE ResolveGroups(filtered, rawValue,
                       FindKey(rawValue, "/Light"), FindKey(rawValue, "/Dark"))

\* the resolveFinexUi of each program: sync-src-assets.ts filters by type,
\* tokens.ts (runtime loader) and build-assets.ts do not
ResolveFinexUiOf(e, rawValue) == ResolveFinexUiWith(e = "sync", rawValue)

\* resolveFinexUi of sync-src-assets.ts
resolveFinexUi(rawValue) == ResolveFinexUiOf("sync", rawValue)

\* resolveFinexUi of tokens.ts (runtime loader)
resolveFinexUiRuntime(rawValue) == ResolveFinexUiOf("runtime", rawValue)

\* resolveFinexUi of build-assets.ts
resolveFinexUiBuild(rawValue) == ResolveFinexUiOf("build", rawValue)

-----------------------------------------------------------------------------
(* Candidate selection *)

\* a JavaScript array of strings
List(items) == [t |-> "array", s |-> <<>>, e |-> items]

\* key in obj: own property or a property of the prototype chain
In(obj, key) == HasOwn(obj, key) \/ key \in ProtoKeys

normalizeCandidates(v) == IF v.t = "array" THEN v.e ELSE <<v.s>>

Picked(key) == [kind |-> "returned", key |-> key, label |-> <<>>, list |-> <<>>]

NoCandidate(lbl, list) ==
    [kind |-> "NoCandidateError", key |-> <<>>, label |-> lbl, list |-> list]

\* for (const key of list) { if (available.has(key)) return key; } throw ...
RECURSIVE PickFromSet(_, _, _, _)
PickFromSet(avail, list, i, lbl) ==
    IF i > Len(list) THEN NoCandidate(lbl, list)
    ELSE IF list[i] \in avail THEN Picked(list[i])
    ELSE PickFromSet(avail, list, i + 1, lbl)

pickFinexKey(avail, cands, lbl) == PickFromSet(avail, normalizeCandidates(cands), 1, lbl)

\* for (const token of candidates) { if (token in farmTokenMap) return token; } throw ...
RECURSIVE PickFromObject(_, _, _, _)
PickFromObject(map, list, i, lbl) ==
    IF i > Len(list) THEN NoCandidate(lbl, list)
    ELSE IF In(map, list[i]) THEN Picked(list[i])
    ELSE PickFromObject(map, list, i + 1, lbl)

pickFarmToken(map, cands, lbl) == PickFromObject(map, cands.e, 1, lbl)

-----------------------------------------------------------------------------
(* Token names *)

\* the atoms made of characters of [a-z0-9-] only
NameAtoms == {"a", "b", "1", "-", "zz", "constructor", "tips", "grey", "btn", "key", "warn"}

\* toLowerCase of one atom
LowerAtom(c) ==
    CASE c = "Tips" -> "tips"
      [] c = "Grey" -> "grey"
      [] c = "Btn" -> "btn"
      [] c = "Key" -> "key"
      [] c = "Warn" -> "warn"
      [] c = "A" -> "a"
      [] OTHER -> c

\* /^[a-z0-9-]+(?:\.[a-z0-9-]+)*$/.test(token)
isValidTokenNameAnyCase(token) ==
    /\ token # <<>>
    /\ token[1] # "."
    /\ token[Len(token)] # "."

isValidTokenName(token) ==
    /\ token # <<>>
    /\ \A i \in 1..Len(token) : token[i] \in NameAtoms \/ token[i] = "."
    /\ token[1] # "."
    /\ token[Len(token)] # "."
    /\ \A i \in 1..(Len(token) - 1) : ~(token[i] = "." /\ token[i + 1] = ".")

\* the same pattern in the sync script
isValidFarmTokenName(token) == isValidTokenName(token)

\* finexKey.trim().toLowerCase().replaceAll(/\s+/g, '-').replaceAll('_', '-')
toFarmToken(finexKey) ==
    [i \in 1..Len(ReplaceSpaceRuns(Trim(finexKey), "-")) |->
        IF ReplaceSpaceRuns(Trim(finexKey), "-")[i] = "_" THEN "-"
        ELSE LowerAtom(ReplaceSpaceRuns(Trim(finexKey), "-")[i])]

\* `--farm-${token.replaceAll('.', '-')}`
cssVarName(token) ==
    <<"--farm-">> \o [i \in 1..Len(token) |-> IF token[i] = "." THEN "-" ELSE token[i]]

-----------------------------------------------------------------------------
(* Integrity validation *)

IntegrityOk ==
    [kind |-> "ok", table |-> "", name |-> <<>>, sub |-> <<>>, key |-> <<>>, mode |-> ""]

IntegrityError(kind, table, name, sub, key, mode) ==
    [kind |-> kind, table |-> table, name |-> name, sub |-> sub, key |-> key, mode |-> mode]

\* tokens.ts tests Object.prototype.hasOwnProperty.call(obj, key),
\* build-assets.ts tests `key in obj`
Has(atLoad, obj, key) == IF atLoad THEN HasOwn(obj, key) ELSE In(obj, key)

FirstError(r, rest) == IF r.kind # "ok" THEN r ELSE rest

\* the loop over the Farm Tokens, from entry i on
RECURSIVE CheckFarmTokens(_, _, _, _, _)
CheckFarmTokens(atLoad, entries, i, light, dark) ==
    IF i > Len(entries) THEN IntegrityOk
    ELSE IF ~isValidTokenName(entries[i].k)
    THEN IntegrityError("InvalidNameError", "farmTokenMap", entries[i].k, <<>>, <<>>, "")
    ELSE IF ~Has(atLoad, light, entries[i].v.s)
    THEN IntegrityError("MissingKeyError", "farmTokenMap", entries[i].k, <<>>,
                        entries[i].v.s, "light")
    ELSE IF ~Has(atLoad, dark, entries[i].v.s)
    THEN IntegrityError("MissingKeyError", "farmTokenMap", entries[i].k, <<>>,
                        entries[i].v.s, "dark")
    ELSE CheckFarmTokens(atLoad, entries, i + 1, light, dark)

\* the loop over one table antd token -> Farm Token, from entry i on
RECURSIVE CheckAntdTokens(_, _, _, _, _, _)
CheckAntdTokens(atLoad, table, name, entries, i, farm) ==
    IF i > Len(entries) THEN IntegrityOk
    ELSE IF ~Has(atLoad, farm, entries[i].v.s)
    THEN IF table = "antdTokenMap"
         THEN IntegrityError("MissingTokenError", table, entries[i].k, <<>>, entries[i].v.s, "")
         ELSE IntegrityError("MissingTokenError", table, name, entries[i].k, entries[i].v.s, "")
    ELSE CheckAntdTokens(atLoad, table, name, entries, i + 1, farm)

\* the loop over the components, from entry i on; only tokens.ts tests
\* isRecord(tokenMap)
RECURSIVE CheckComponents(_, _, _, _)
CheckComponents(atLoad, comps, i, farm) ==
    IF i > Len(comps) THEN IntegrityOk
    ELSE IF atLoad /\ ~isRecord(comps[i].v)
    THEN IntegrityError("NotObjectError", "antdComponentsMap", comps[i].k, <<>>, <<>>, "")
    ELSE FirstError(CheckAntdTokens(atLoad, "antdComponentsMap", comps[i].k, comps[i].v.e, 1, farm),
                    CheckComponents(atLoad, comps, i + 1, farm))

assertFarmTokensOnly(atLoad, theme, farm, antd, comps) ==
    CheckFarmTokens(atLoad, farm.e, 1, Get(theme, <<"light">>), Get(theme, <<"dark">>))

\* assertThemeIntegrity() of tokens.ts (atLoad) and the integrity checks of
\* main of build-assets.ts
assertThemeIntegrity(atLoad, theme, farm, antd, comps) ==
    FirstError(CheckFarmTokens(atLoad, farm.e, 1, Get(theme, <<"light">>), Get(theme, <<"dark">>)),
               FirstError(CheckAntdTokens(atLoad, "antdTokenMap", <<>>, antd.e, 1, farm),
                          CheckComponents(atLoad, comps.e, 1, farm)))

-----------------------------------------------------------------------------
(* Farm Tokens, CSS variables, antd theme, colour preset *)

Computed(v) == [kind |-> "ok", val |-> v]

IsNullish(v) == v.t \in {"undefined", "null"}

\* a ?? b
Coalesce(a, b) == IF IsNullish(a) THEN b ELSE a

\* options?.[key]
OptionalGet(options, key) == IF IsNullish(options) THEN Undefined ELSE Get(options, key)

\* resolveModeTokens: the loop over the Farm Tokens, from entry i on
RECURSIVE ResolveTokens(_, _, _, _, _)
ResolveTokens(entries, i, finexModeTokens, overrides, out) ==
    IF i > Len(entries) THEN Computed(out)
    ELSE IF Get(finexModeTokens, entries[i].v.s) = Undefined
    THEN [kind |-> "MissingKeyError", val |-> entries[i].v]
    ELSE ResolveTokens(entries, i + 1, finexModeTokens, overrides,
            Put(out, entries[i].k,
                Coalesce(OptionalGet(overrides, entries[i].k),
                         Get(finexModeTokens, entries[i].v.s))))

\* resolveModeTokens(mode, {finexUi, overrides}) over the Farm Tokens of farm
resolveModeTokens(farm, mode, finex, overrides) ==
    ResolveTokens(farm.e, 1, Get(finex, <<mode>>), overrides, Obj(<<>>))

\* resolveModeCssVars(mode, modeTokens)
RECURSIVE resolveModeCssVars(_, _, _, _)
resolveModeCssVars(entries, i, modeTokens, out) ==
    IF i > Len(entries) THEN out
    ELSE resolveModeCssVars(entries, i + 1, modeTokens,
            Put(out, cssVarName(entries[i].k), Get(modeTokens, entries[i].k)))

\* `${value}` of a template literal
Text(v) == IF v.t = "string" THEN v.s ELSE <<"[", v.t, "]">>

\* lines of formatCssVarBlock: `  ${name}: ${value};`
CssLines(table) ==
    [i \in 1..Len(table.e) |->
        <<"  ">> \o table.e[i].k \o <<":", " ">> \o Text(table.e[i].v) \o <<";">>]

\* formatCssVarBlock(selector, vars)
formatCssVarBlock(selector, table) ==
    <<selector, " ", "{", "\n">> \o Join(CssLines(table), "\n") \o <<"\n", "}">>

lightSelector == ":root, [data-theme=light], .light"

darkSelector == "[data-theme=dark], .dark"

\* createTokensCss({vars}) with the default selectors; also buildTokensCss
createTokensCss(byMode) ==
    Join(<< <<"/* Auto-generated by @farm-design-system/theme. */">>,
            formatCssVarBlock(lightSelector, Get(byMode, <<"light">>)),
            formatCssVarBlock(darkSelector, Get(byMode, <<"dark">>)),
            <<>> >>, "\n\n")

\* token.split('.')
RECURSIVE Split(_, _)
Split(s, part) ==
    IF s = <<>> THEN <<part>>
    ELSE IF Head(s) = "." THEN <<part>> \o Split(Tail(s), <<>>)
    ELSE Split(Tail(s), Append(part, Head(s)))

\* setNestedValue(obj, path, value): `!next || typeof next === 'string'`
\* replaces what is at a segment by a fresh object
RECURSIVE setNestedValue(_, _, _)
setNestedValue(obj, path, v) ==
    IF Len(path) = 1 THEN Put(obj, path[1], v)
    ELSE Put(obj, path[1],
             setNestedValue(IF Get(obj, path[1]).t \in {"undefined", "string"}
                            THEN Obj(<<>>) ELSE Get(obj, path[1]),
                            Tail(path), v))

\* tailwindColors: the loop over the Farm Tokens, from entry i on
RECURSIVE TailwindColors(_, _, _)
TailwindColors(entries, i, root) ==
    IF i > Len(entries) THEN root
    ELSE TailwindColors(entries, i + 1,
            setNestedValue(root, Split(entries[i].k, <<>>),
                           Str(<<"var(">> \o cssVarName(entries[i].k) \o <<")">>)))

\* a number
Number(n) == [t |-> "number", s |-> <<n>>, e |-> <<>>]

\* the loop `token[antdToken] = modeTokens?.[farmToken] ?? getToken(mode, farmToken)`;
\* also the loop over the tokens of one component
RECURSIVE MapToTokens(_, _, _, _, _)
MapToTokens(entries, i, modeTokens, builtin, out) ==
    IF i > Len(entries) THEN out
    ELSE MapToTokens(entries, i + 1, modeTokens, builtin,
            Put(out, entries[i].k,
                Coalesce(OptionalGet(modeTokens, entries[i].v.s), Get(builtin, entries[i].v.s))))

\* Object.assign(target, source) and { ...target, ...source }
RECURSIVE Assign(_, _, _)
Assign(target, entries, i) ==
    IF i > Len(entries) THEN target
    ELSE Assign(Put(target, entries[i].k, entries[i].v), entries, i + 1)

\* resolveAntdComponents: the mapped components, from entry i on
RECURSIVE MapComponents(_, _, _, _, _)
MapComponents(comps, i, modeTokens, builtin, out) ==
    IF i > Len(comps) THEN out
    ELSE MapComponents(comps, i + 1, modeTokens, builtin,
            Put(out, comps[i].k, MapToTokens(comps[i].v.e, 1, modeTokens, builtin, Obj(<<>>))))

\* resolveAntdComponents: the overrides, from entry i on
RECURSIVE OverrideComponents(_, _, _)
OverrideComponents(mapped, overrides, i) ==
    IF i > Len(overrides) THEN mapped
    ELSE OverrideComponents(
            Put(mapped, overrides[i].k,
                Assign(Coalesce(Get(mapped, overrides[i].k), Obj(<<>>)), overrides[i].v.e, 1)),
            overrides, i + 1)

\* resolveAntdComponents(mode, {modeTokens, overrides})
resolveAntdComponents(comps, modeTokens, builtin, overrides) ==
    IF IsNullish(overrides) THEN MapComponents(comps.e, 1, modeTokens, builtin, Obj(<<>>))
    ELSE OverrideComponents(MapComponents(comps.e, 1, modeTokens, builtin, Obj(<<>>)),
                            overrides.e, 1)

AntdGlobalTokenMappedLast(antd, modeTokens, builtin, options) ==
    MapToTokens(antd.e, 1, modeTokens, builtin,
                Assign(Obj(<<Entry(<<"borderRadius">>,
                                   Coalesce(OptionalGet(options, <<"borderRadius">>), Number("8")))>>),
                       Coalesce(OptionalGet(options, <<"overrides">>), Obj(<<>>)).e, 1))

\* the `token` of resolveAntdTheme
AntdGlobalToken(antd, modeTokens, builtin, options) ==
    Assign(MapToTokens(antd.e, 1, modeTokens, builtin,
                       Obj(<<Entry(<<"borderRadius">>,
                                   Coalesce(OptionalGet(options, <<"borderRadius">>), Number("8")))>>)),
           Coalesce(OptionalGet(options, <<"overrides">>), Obj(<<>>)).e, 1)

\* `Object.keys(components).length > 0 ? { token, components } : { token }`
AntdThemeConfig(token, components) ==
    IF components.e = <<>> THEN Obj(<<Entry(<<"token">>, token)>>)
    ELSE Obj(<<Entry(<<"token">>, token), Entry(<<"components">>, components)>>)

\* resolveAntdTheme(mode, options) with options.modeTokens = modeTokens;
\* builtin is tokens[mode] of the package, read by getToken
resolveAntdTheme(antd, comps, modeTokens, builtin, options) ==
    AntdThemeConfig(AntdGlobalToken(antd, modeTokens, builtin, options),
                    resolveAntdComponents(comps, modeTokens, builtin,
                                          OptionalGet(options, <<"components">>)))

\* the object { light, dark }
ByMode(light, dark) == Obj(<<Entry(<<"light">>, light), Entry(<<"dark">>, dark)>>)

\* options.antd?.[mode]
AntdOptions(options, mode) == OptionalGet(OptionalGet(options, <<"antd">>), <<mode>>)

\* createTheme after both resolveModeTokens calls: light and dark are what
\* they returned or threw; builtin is the exported tokens
ThemeBundle(farm, antd, comps, builtin, finex, light, dark, options) ==
    IF light.kind # "ok" THEN light
    ELSE IF dark.kind # "ok" THEN dark
    ELSE Computed(Obj(<<
            Entry(<<"finexUi">>, finex),
            Entry(<<"tokens">>, ByMode(light.val, dark.val)),
            Entry(<<"cssVars">>, ByMode(resolveModeCssVars(farm.e, 1, light.val, Obj(<<>>)),
                                        resolveModeCssVars(farm.e, 1, dark.val, Obj(<<>>)))),
            Entry(<<"antdTheme">>,
                  ByMode(resolveAntdTheme(antd, comps, light.val, Get(builtin, <<"light">>),
                                          AntdOptions(options, "light")),
                         resolveAntdTheme(antd, comps, dark.val, Get(builtin, <<"dark">>),
                                          AntdOptions(options, "dark")))) >>))

\* createTheme(options) with `finex = options.finexUi ?? finexUi`
CreateThemeFrom(farm, antd, comps, builtin, finex, options) ==
    ThemeBundle(farm, antd, comps, builtin, finex,
                resolveModeTokens(farm, "light", finex,
                                  OptionalGet(OptionalGet(options, <<"overrides">>), <<"light">>)),
                resolveModeTokens(farm, "dark", finex,
                                  OptionalGet(OptionalGet(options, <<"overrides">>), <<"dark">>)),
                options)

createTheme(farm, antd, comps, builtin, builtinFinex, options) ==
    CreateThemeFrom(farm, antd, comps, builtin,
                    Coalesce(OptionalGet(options, <<"finexUi">>), builtinFinex), options)

\* main of the sync script: the loop that fills farmTokenMap, from key i on;
\* `seen` has the keys of out
RECURSIVE BuildFarmTokenMap(_, _, _)
BuildFarmTokenMap(keys, i, out) ==
    IF i > Len(keys) THEN Computed(out)
    ELSE IF ~isValidFarmTokenName(toFarmToken(keys[i]))
    THEN [kind |-> "InvalidNameError", val |-> Str(toFarmToken(keys[i]))]
    ELSE IF HasOwn(out, toFarmToken(keys[i]))
    THEN [kind |-> "TokenConflictError", val |-> Str(toFarmToken(keys[i]))]
    ELSE BuildFarmTokenMap(keys, i + 1, Put(out, toFarmToken(keys[i]), Str(keys[i])))

-----------------------------------------------------------------------------
(* Inputs of the resolver *)

MaxKeys == 3

KeyPool == << <<"A">>, <<"B">>, <<"Grey", ".", "18">>, <<"C">>, <<"D">> >>

LookupKeys == {KeyPool[i] : i \in 1..MaxKeys}

RefTo(key) == <<"{">> \o key \o <<"}">>

Literals == {<<"#ffffff">>, <<"{", "}">>}

\* what a lookup entry may hold: a literal or a reference to a key of the
\* lookup, to a key absent from it, or to an inherited property name
LookupValues ==
    Literals
    \cup {RefTo(k) : k \in LookupKeys}
    \cup {RefTo(<<"Missing">>), RefTo(<<"constructor">>), <<" ">> \o RefTo(<<"A">>)}

StartValues ==
    LookupValues \cup {<<"#000000", " ">>, <<"{", "A", "}", " ">>, <<"{", " ", "A", "}">>}

\* every lookup object over a subset of LookupKeys
Lookups ==
    LET maps == [LookupKeys -> LookupValues \cup {<<"absent">>}]
        order == [i \in 1..MaxKeys |-> KeyPool[i]]
        entries(m) == SelectSeq([i \in 1..MaxKeys |-> [k |-> order[i], v |-> Str(m[order[i]])]],
                                LAMBDA en : en.v.s # <<"absent">>)
    IN {Obj(entries(m)) : m \in maps}

ResolveIdle ==
    /\ value0 = <<>>
    /\ lookup = Obj(<<>>)
    /\ value = Undefined
    /\ stack = <<>>
    /\ depth = 0
    /\ outcome = "idle"
    /\ result = <<>>
    /\ errRef = <<>>

NotRun == [kind |-> "none", theme |-> Undefined, ref |-> <<>>]

NoError == [kind |-> "none", missingInDark |-> <<>>, missingInLight |-> <<>>]

NormalizeIdle ==
    /\ entry = "idle"
    /\ raw = Undefined
    /\ pc = "idle"
    /\ finexUi = NotRun
    /\ fileFinexUi = Undefined
    /\ mainError = NoError
    /\ again = NotRun

NotPicked == [kind |-> "none", key |-> <<>>, label |-> <<>>, list |-> <<>>]

PickIdle ==
    /\ picker = "idle"
    /\ available = {}
    /\ farmTokenMap = Obj(<<>>)
    /\ candidates = Undefined
    /\ label = <<>>
    /\ picked = NotPicked

NotComputed == [kind |-> "none", val |-> Undefined]

NotValidated ==
    [kind |-> "none", table |-> "", name |-> <<>>, sub |-> <<>>, key |-> <<>>, mode |-> ""]

ThemeIdle ==
    /\ program = "idle"
    /\ finexTheme = Undefined
    /\ farmMap = Undefined
    /\ antdTokenMap = Undefined
    /\ antdComponentsMap = Undefined
    /\ phase = "idle"
    /\ integrity = NotValidated
    /\ tokens = NotComputed
    /\ cssVars = NotComputed
    /\ antdTheme = NotComputed
    /\ tailwindColors = NotComputed
    /\ tokensCss = <<>>
    /\ themeOptions = Undefined
    /\ themeBundle = NotComputed

CoverageIdle ==
    /\ checkVersion = "idle"
    /\ argv = <<>>
    /\ artifacts = Undefined
    /\ usage = {}
    /\ unused = <<>>
    /\ checkStep = "idle"
    /\ exitCode = 0

ModalIdle ==
    /\ modalProps = Undefined
    /\ uncontrolledOpen = FALSE
    /\ pendingOk = 0
    /\ calls = <<>>
    /\ lastEvent = "idle"

\* the most FarmProviders mounted at once
MaxProviders == 2

\* a FarmProvider that is not mounted
NotMounted == [mounted |-> FALSE, scope |-> "none", mode |-> "none", prev |-> "none"]

DocumentIdle ==
    /\ dataTheme = "null"
    /\ themeBefore = "null"
    /\ providers = [p \in 1..MaxProviders |-> NotMounted]
    /\ prefersColor = "null"
    /\ systemDark = FALSE
    /\ hasMatchMedia = FALSE
    /\ docsMode = "none"
    /\ docsPhase = "idle"
    /\ observerPending = FALSE

\* the parts of the model that do not run
IdleExceptResolve == NormalizeIdle /\ PickIdle /\ ThemeIdle /\ CoverageIdle /\ ModalIdle /\ DocumentIdle
IdleExceptNormalize == ResolveIdle /\ PickIdle /\ ThemeIdle /\ CoverageIdle /\ ModalIdle /\ DocumentIdle
IdleExceptPick == ResolveIdle /\ NormalizeIdle /\ ThemeIdle /\ CoverageIdle /\ ModalIdle /\ DocumentIdle
IdleExceptTheme == ResolveIdle /\ NormalizeIdle /\ PickIdle /\ CoverageIdle /\ ModalIdle /\ DocumentIdle
IdleExceptCoverage == ResolveIdle /\ NormalizeIdle /\ PickIdle /\ ThemeIdle /\ ModalIdle /\ DocumentIdle
IdleExceptModal == ResolveIdle /\ NormalizeIdle /\ PickIdle /\ ThemeIdle /\ CoverageIdle /\ DocumentIdle
IdleExceptDocument ==
    ResolveIdle /\ NormalizeIdle /\ PickIdle /\ ThemeIdle /\ CoverageIdle /\ ModalIdle

InitResolve ==
    /\ IdleExceptResolve
    /\ value0 \in StartValues
    /\ lookup \in Lookups
    /\ value = Str(value0)
    /\ stack = <<>>
    /\ depth = 1
    /\ outcome = "running"
    /\ result = <<>>
    /\ errRef = <<>>

\* One invocation of resolveTokenValue.
ResolveStep ==
    /\ outcome = "running"
    /\ LET r == resolveCall(value, lookup, stack) IN
       IF r.kind = "recurse"
       THEN /\ value' = r.val
            /\ stack' = r.stack
            /\ depth' = depth + 1
            /\ UNCHANGED <<outcome, result, errRef>>
       ELSE /\ outcome' = r.kind
            /\ result' = r.val
            /\ errRef' = r.ref
            /\ UNCHANGED <<value, stack, depth>>
    /\ UNCHANGED <<value0, lookup>>
    /\ UNCHANGED notResolveVars

NextResolve == ResolveStep

SpecResolve == InitResolve /\ [][NextResolve]_vars

-----------------------------------------------------------------------------
(* Inputs of the normaliser: Token Studio exports and other JSON values *)

\* a leaf { value, type }; ty = "" leaves the type out
Leaf(v, ty) ==
    Obj(<<Entry(<<"value">>, Str(v))>>
        \o (IF ty = "" THEN <<>> ELSE <<Entry(<<"type">>, Str(<<ty>>))>>))

\* the tree with leaf added at path (groups created on the way)
RECURSIVE InsertLeaf(_, _, _)
InsertLeaf(tree, path, leaf) ==
    IF Len(path) = 1 THEN Put(tree, path[1], leaf)
    ELSE Put(tree, path[1],
             InsertLeaf(IF HasOwn(tree, path[1]) THEN GetOwn(tree, path[1]) ELSE Obj(<<>>),
                        Tail(path), leaf))

RECURSIVE TreeOf(_)
TreeOf(pairs) ==
    IF pairs = <<>> THEN Obj(<<>>)
    ELSE InsertLeaf(TreeOf(SubSeq(pairs, 1, Len(pairs) - 1)),
                    pairs[Len(pairs)].path, pairs[Len(pairs)].leaf)

MaxLeaves == 2

\* paths of leaves inside a theme group; no path is a prefix of another
PathPool ==
    { << <<"Bg">> >>,
      << <<"A">>, <<"Bg">> >>,
      << <<"A", "-", "Bg">> >>,
      << <<"A", " ", "B">>, <<" ", "Bg", " ", " ", "X">> >> }

LeafPool ==
    { Leaf(<<"#111111">>, "color"),
      Leaf(RefTo(<<"Alias">>), "color"),
      Leaf(<<"16">>, "number"),
      Leaf(RefTo(<<"Missing">>), "color") }

LeafPairs == [path : PathPool, leaf : LeafPool]

\* up to MaxLeaves leaves at distinct paths, in insertion order
LeafLists ==
    UNION { {ps \in [1..n -> LeafPairs] :
                \A i, j \in 1..n : i # j => ps[i].path # ps[j].path}
            : n \in 0..MaxLeaves }

GroupTrees == {TreeOf(ps) : ps \in LeafLists}

\* base/base: the shared reference namespace
BaseTree ==
    Obj(<< Entry(<<"Grey">>, Obj(<<Entry(<<"18">>, Leaf(<<"#ffffff">>, "color"))>>)),
           Entry(<<"Alias">>, Leaf(RefTo(<<"Grey", ".", "18">>), "color")),
           Entry(<<"Size">>, Leaf(<<"16">>, "number")) >>)

DarkBg == TreeOf(<< [path |-> << <<"Bg">> >>, leaf |-> Leaf(<<"#000000">>, "color")] >>)

LightBg == TreeOf(<< [path |-> << <<"Bg">> >>, leaf |-> Leaf(RefTo(<<"Grey", ".", "18">>), "color")] >>)

Export(base, light, dark) ==
    Obj(<< Entry(<<"base/base">>, base),
           Entry(<<"X", "/Light">>, light),
           Entry(<<"X", "/Dark">>, dark) >>)

Exports ==
    {Export(BaseTree, light, dark) : light \in GroupTrees, dark \in {DarkBg, Obj(<<>>)}}
    \cup {Export(BaseTree, t, t) : t \in GroupTrees}
    \cup {Export(BaseTree, LightBg, DarkBg)}

FlatA == Obj(<<Entry(<<"A">>, Str(<<"#111111">>))>>)

\* inputs of other shapes: not objects, sections missing or doubled, and
\* already resolved { light, dark } themes (hand-written ones included)
OddRaws ==
    { Null, Arr, Num, Str(<<"x">>), Obj(<<>>),
      Obj(<< Entry(<<"X", "/Light">>, LightBg), Entry(<<"X", "/Dark">>, DarkBg) >>),
      Obj(<< Entry(<<"base/base">>, Str(<<"x">>)), Entry(<<"X", "/Light">>, LightBg),
             Entry(<<"X", "/Dark">>, DarkBg) >>),
      Obj(<< Entry(<<"base/base">>, BaseTree), Entry(<<"X", "/Dark">>, DarkBg) >>),
      Obj(<< Entry(<<"base/base">>, BaseTree), Entry(<<"X", "/Light">>, LightBg) >>),
      Obj(<< Entry(<<"base/base">>, BaseTree), Entry(<<"X", "/Light">>, LightBg),
             Entry(<<"Y", "/Light">>, DarkBg), Entry(<<"X", "/Dark">>, DarkBg) >>),
      Obj(<< Entry(<<"base/base">>, BaseTree), Entry(<<"X", "/Light">>, LightBg),
             Entry(<<"X", "/Dark">>, DarkBg), Entry(<<"Y", "/Dark">>, Obj(<<>>)) >>),
      Obj(<< Entry(<<"base/base">>, BaseTree), Entry(<<"X", "/Light">>, Str(<<"x">>)),
             Entry(<<"X", "/Dark">>, Obj(<<>>)) >>),
      Obj(<< Entry(<<"base/base">>, BaseTree), Entry(<<"X", "/Lighter">>, LightBg),
             Entry(<<"X", "/Dark">>, DarkBg) >>),
      Obj(<< Entry(<<"light">>, FlatA), Entry(<<"dark">>, FlatA) >>),
      Obj(<< Entry(<<"light">>, FlatA), Entry(<<"dark">>, Obj(<<>>)) >>),
      Obj(<< Entry(<<"light">>, FlatA), Entry(<<"dark">>, Str(<<"x">>)) >>),
      Obj(<< Entry(<<"light">>, Obj(<<>>)), Entry(<<"dark">>, Obj(<<>>)),
             Entry(<<"base/base">>, BaseTree) >>) }

RawInputs == Exports \cup OddRaws

-----------------------------------------------------------------------------
(* The programs that normalise: sync script, runtime loader, build script *)

InitNormalize ==
    /\ IdleExceptNormalize
    /\ entry \in {"sync", "runtime", "build"}
    /\ raw \in RawInputs
    /\ pc = "start"
    /\ finexUi = NotRun
    /\ fileFinexUi = Undefined
    /\ mainError = NoError
    /\ again = NotRun

\* items.slice(0, 10) of the error preview
PreviewLimit == 10

Preview(items) == SubSeq(items, 1, IF Len(items) < PreviewLimit THEN Len(items) ELSE PreviewLimit)

\* Object.keys(obj)
ObjectKeys(obj) == [i \in 1..Len(obj.e) |-> obj.e[i].k]

\* keys.filter(key => !other.has(key))
KeysMissingFrom(keys, other) == SelectSeq(keys, LAMBDA key : ~HasOwn(other, key))

\* sync main: `const finexUi = resolveFinexUi(raw)`
SyncResolve ==
    /\ entry = "sync" /\ pc = "start"
    /\ finexUi' = resolveFinexUi(raw)
    /\ pc' = IF finexUi'.kind = "ok" THEN "resolved" ELSE "failed"
    /\ UNCHANGED <<entry, raw, fileFinexUi, mainError, again>>
    /\ UNCHANGED notNormalizeVars

\* sync main: `await fs.writeFile(srcFinexUiPath, JSON.stringify(finexUi))`
SyncWriteFinexUi ==
    /\ entry = "sync" /\ pc = "resolved"
    /\ fileFinexUi' = finexUi.theme
    /\ pc' = "written"
    /\ UNCHANGED <<entry, raw, finexUi, mainError, again>>
    /\ UNCHANGED notNormalizeVars

\* sync main: the Light/Dark key comparison that follows the write
SyncCheckKeys ==
    /\ entry = "sync" /\ pc = "written"
    /\ LET light == Get(finexUi.theme, <<"light">>)
           dark == Get(finexUi.theme, <<"dark">>)
           missingInDark == KeysMissingFrom(ObjectKeys(light), dark)
           missingInLight == KeysMissingFrom(ObjectKeys(dark), light)
       IN IF Len(missingInDark) > 0 \/ Len(missingInLight) > 0
          THEN /\ mainError' = [kind |-> "KeySkewError",
                                 missingInDark |-> Preview(missingInDark),
                                 missingInLight |-> Preview(missingInLight)]
               /\ pc' = "failed"
          ELSE /\ pc' = "keysChecked"
               /\ UNCHANGED mainError
    /\ UNCHANGED <<entry, raw, finexUi, fileFinexUi, again>>
    /\ UNCHANGED notNormalizeVars

\* tokens.ts at import: `const finexUiResolved = resolveFinexUi(finexUiJson)`
RuntimeLoad ==
    /\ entry = "runtime" /\ pc = "start"
    /\ finexUi' = resolveFinexUiRuntime(raw)
    /\ pc' = IF finexUi'.kind = "ok" THEN "loaded" ELSE "failed"
    /\ UNCHANGED <<entry, raw, fileFinexUi, mainError, again>>
    /\ UNCHANGED notNormalizeVars

\* build main: `const finexUi = resolveFinexUi(JSON.parse(finexUiRaw))`
BuildResolve ==
    /\ entry = "build" /\ pc = "start"
    /\ finexUi' = resolveFinexUiBuild(raw)
    /\ pc' = IF finexUi'.kind = "ok" THEN "built" ELSE "failed"
    /\ UNCHANGED <<entry, raw, fileFinexUi, mainError, again>>
    /\ UNCHANGED notNormalizeVars

\* resolveFinexUi called on what it returned (the resolved theme is written
\* to src/finex-ui.json, which the build script and the runtime loader read
\* back through resolveFinexUi)
NormalizeAgain ==
    /\ finexUi.kind = "ok" /\ again = NotRun
    /\ again' = ResolveFinexUiOf(entry, finexUi.theme)
    /\ UNCHANGED <<entry, raw, pc, finexUi, fileFinexUi, mainError>>
    /\ UNCHANGED notNormalizeVars

NextNormalize ==
    \/ SyncResolve
    \/ SyncWriteFinexUi
    \/ SyncCheckKeys
    \/ RuntimeLoad
    \/ BuildResolve
    \/ NormalizeAgain

SpecNormalize == InitNormalize /\ [][NextNormalize]_vars

-----------------------------------------------------------------------------
(* Calls of the two selection functions of the sync script *)

MaxCandidates == 2

PickKeys == {<<"new-key">>, <<"old-key">>, <<"constructor">>}

RECURSIVE KeyLists(_)
KeyLists(n) ==
    IF n = 0 THEN {<<>>}
    ELSE KeyLists(n - 1) \cup
         {Append(l, k) : l \in {m \in KeyLists(n - 1) : Len(m) = n - 1}, k \in PickKeys}

\* the keys in the order of Array.prototype.sort
SortedPickKeys == << <<"constructor">>, <<"new-key">>, <<"old-key">> >>

\* the plain object main builds: the given own keys inserted in sorted order,
\* each mapped to a finex key
MapOf(keys) ==
    Obj(SelectSeq([i \in 1..Len(SortedPickKeys) |-> Entry(SortedPickKeys[i], Str(<<"Bg">>))],
                  LAMBDA en : en.k \in keys))

Labels == {<<"token", ".", "colorPrimary">>, <<"colorPrimary">>}

InitPick ==
    /\ IdleExceptPick
    /\ picker \in {"pickFinexKey", "pickFarmToken"}
    /\ \E keys \in SUBSET PickKeys :
          IF picker = "pickFinexKey"
          THEN available = keys /\ farmTokenMap = Obj(<<>>)
          ELSE available = {} /\ farmTokenMap = MapOf(keys)
    /\ candidates \in {List(l) : l \in KeyLists(MaxCandidates)} \cup
                      {Str(k) : k \in IF picker = "pickFinexKey" THEN PickKeys ELSE {}}
    /\ label \in Labels
    /\ picked = NotPicked

\* a call pickFinexKey(available, candidates, label)
PickFinexKey ==
    /\ picker = "pickFinexKey"
    /\ picked = NotPicked
    /\ picked' = pickFinexKey(available, candidates, label)
    /\ UNCHANGED <<picker, available, farmTokenMap, candidates, label>>
    /\ UNCHANGED notPickVars

\* a call pickFarmToken(farmTokenMap, candidates, label)
PickFarmToken ==
    /\ picker = "pickFarmToken"
    /\ picked = NotPicked
    /\ picked' = pickFarmToken(farmTokenMap, candidates, label)
    /\ UNCHANGED <<picker, available, farmTokenMap, candidates, label>>
    /\ UNCHANGED notPickVars

NextPick == PickFinexKey \/ PickFarmToken

SpecPick == InitPick /\ [][NextPick]_vars

-----------------------------------------------------------------------------
(* The theme package: load of tokens.ts, createTheme, main of build-assets.ts,  *)
(* generation of farm-token-map.json by the sync script                        *)

MaxTokens == 2

FlatTheme(lightKeys, darkKeys) ==
    ByMode(Obj([i \in 1..Len(lightKeys) |-> Entry(lightKeys[i], Str(<<"#11", lightKeys[i][1]>>))]),
           Obj([i \in 1..Len(darkKeys) |-> Entry(darkKeys[i], Str(<<"#dd", darkKeys[i][1]>>))]))

K1 == <<"K1">>

K2 == <<"K2">>

\* finex-ui.json: complete, without K2, with K2 in light only
Themes ==
    {FlatTheme(<<K1, K2>>, <<K1, K2>>), FlatTheme(<<K1>>, <<K1>>), FlatTheme(<<K1, K2>>, <<K1>>)}

TokenPool == {<<"a">>, <<"a", ".", "b">>, <<"a", "-", "b">>, <<"Bad">>}

\* the lists of at most n entries token -> finex key, with different tokens
RECURSIVE FarmEntryLists(_)
FarmEntryLists(n) ==
    IF n = 0 THEN {<<>>}
    ELSE FarmEntryLists(n - 1) \cup
         {Append(l, Entry(t, Str(k))) :
            l \in {m \in FarmEntryLists(n - 1) : Len(m) = n - 1},
            t \in TokenPool, k \in {K1, K2}}

FarmMaps ==
    {Obj(l) : l \in {m \in FarmEntryLists(MaxTokens) :
                        \A i, j \in 1..Len(m) : m[i].k = m[j].k => i = j}}

\* what a mapping entry may point to: Farm Tokens, a name that is nowhere,
\* a name every object inherits
Targets == {<<"a">>, <<"a", ".", "b">>, <<"zz">>, <<"constructor">>}

AntdTokenMaps ==
    {Obj(<<>>)} \cup {Obj(<<Entry(<<"colorPrimary">>, Str(t))>>) : t \in Targets}

AntdComponentsMaps ==
    {Obj(<<>>), Obj(<<Entry(<<"Button">>, Str(<<"a">>))>>)} \cup
    {Obj(<<Entry(<<"Button">>, Obj(<<Entry(<<"colorBg">>, Str(t))>>))>>) :
        t \in {<<"a">>, <<"zz">>}}

\* the finex keys of the sync input, in the order of Array.prototype.sort
SortedSyncKeys ==
    << <<"Btn", " ", "A">>, <<"Tips", "-", "Grey">>, <<"Tips", "_", "Grey">>, <<"Warn", "/", "Key">> >>

SortKeys(keys) == SelectSeq(SortedSyncKeys, LAMBDA k : k \in keys)

SyncThemes ==
    {FlatTheme(SortKeys(keys), SortKeys(keys)) :
        keys \in SUBSET {SortedSyncKeys[i] : i \in 1..Len(SortedSyncKeys)}}

InitTheme ==
    /\ IdleExceptTheme
    /\ program \in {"load", "build", "sync"}
    /\ IF program = "sync"
       THEN /\ finexTheme \in SyncThemes
            /\ farmMap = Obj(<<>>)
            /\ antdTokenMap = Obj(<<>>)
            /\ antdComponentsMap = Obj(<<>>)
       ELSE /\ finexTheme \in Themes
            /\ farmMap \in FarmMaps
            /\ antdTokenMap \in AntdTokenMaps
            /\ antdComponentsMap \in
                  {c \in AntdComponentsMaps :
                      program = "build" => \A i \in 1..Len(c.e) : isRecord(c.e[i].v)}
    /\ phase = "start"
    /\ integrity = NotValidated
    /\ tokens = NotComputed
    /\ cssVars = NotComputed
    /\ antdTheme = NotComputed
    /\ tailwindColors = NotComputed
    /\ tokensCss = <<>>
    /\ themeOptions = Undefined
    /\ themeBundle = NotComputed

\* tokens.ts, line 303: assertThemeIntegrity()
LoadValidate ==
    /\ program = "load"
    /\ phase = "start"
    /\ integrity' = assertThemeIntegrity(TRUE, finexTheme, farmMap, antdTokenMap, antdComponentsMap)
    /\ phase' = IF integrity'.kind = "ok" THEN "validated" ELSE "failed"
    /\ UNCHANGED <<program, finexTheme, farmMap, antdTokenMap, antdComponentsMap, tokens, cssVars,
                   antdTheme, tailwindColors, tokensCss, themeOptions, themeBundle>>
    /\ UNCHANGED notThemeVars

\* the built-in tokens of the package
BuiltinTokens ==
    ByMode(resolveModeTokens(farmMap, "light", finexTheme, Undefined).val,
           resolveModeTokens(farmMap, "dark", finexTheme, Undefined).val)

\* tokens.ts after line 303: the exported tokens, cssVars, antdTheme,
\* tailwindColors
LoadExports ==
    /\ program = "load"
    /\ phase = "validated"
    /\ tokens' = Computed(BuiltinTokens)
    /\ cssVars' = Computed(ByMode(
            resolveModeCssVars(farmMap.e, 1, Get(BuiltinTokens, <<"light">>), Obj(<<>>)),
            resolveModeCssVars(farmMap.e, 1, Get(BuiltinTokens, <<"dark">>), Obj(<<>>))))
    /\ antdTheme' = Computed(ByMode(
            resolveAntdTheme(antdTokenMap, antdComponentsMap, Undefined,
                             Get(BuiltinTokens, <<"light">>), Undefined),
            resolveAntdTheme(antdTokenMap, antdComponentsMap, Undefined,
                             Get(BuiltinTokens, <<"dark">>), Undefined)))
    /\ tailwindColors' = Computed(TailwindColors(farmMap.e, 1, Obj(<<>>)))
    /\ phase' = "ready"
    /\ UNCHANGED <<program, finexTheme, farmMap, antdTokenMap, antdComponentsMap, integrity,
                   tokensCss, themeOptions, themeBundle>>
    /\ UNCHANGED notThemeVars

\* a consumer calls createTokensCss()
CreateTokensCss ==
    /\ program = "load"
    /\ phase = "ready"
    /\ tokensCss = <<>>
    /\ tokensCss' = createTokensCss(cssVars.val)
    /\ UNCHANGED <<program, finexTheme, farmMap, antdTokenMap, antdComponentsMap, phase, integrity,
                   tokens, cssVars, antdTheme, tailwindColors, themeOptions, themeBundle>>
    /\ UNCHANGED notThemeVars

\* main of build-assets.ts: the integrity checks
BuildValidate ==
    /\ program = "build"
    /\ phase = "start"
    /\ integrity' = assertThemeIntegrity(FALSE, finexTheme, farmMap, antdTokenMap, antdComponentsMap)
    /\ phase' = IF integrity'.kind = "ok" THEN "validated" ELSE "failed"
    /\ UNCHANGED <<program, finexTheme, farmMap, antdTokenMap, antdComponentsMap, tokens, cssVars,
                   antdTheme, tailwindColors, tokensCss, themeOptions, themeBundle>>
    /\ UNCHANGED notThemeVars

\* the variables of buildTokensCss: lightVars[varName] = finexUi.light[finexKey]
RECURSIVE BuildVars(_, _, _, _)
BuildVars(entries, i, finexModeTokens, out) ==
    IF i > Len(entries) THEN out
    ELSE BuildVars(entries, i + 1, finexModeTokens,
            Put(out, cssVarName(entries[i].k), Get(finexModeTokens, entries[i].v.s)))

\* main of build-assets.ts: tokens.css and the Tailwind preset
BuildEmit ==
    /\ program = "build"
    /\ phase = "validated"
    /\ tokensCss' = createTokensCss(ByMode(
            BuildVars(farmMap.e, 1, Get(finexTheme, <<"light">>), Obj(<<>>)),
            BuildVars(farmMap.e, 1, Get(finexTheme, <<"dark">>), Obj(<<>>))))
    /\ tailwindColors' = Computed(TailwindColors(farmMap.e, 1, Obj(<<>>)))
    /\ phase' = "emitted"
    /\ UNCHANGED <<program, finexTheme, farmMap, antdTokenMap, antdComponentsMap, integrity,
                   tokens, cssVars, antdTheme, themeOptions, themeBundle>>
    /\ UNCHANGED notThemeVars

\* what the loop of the sync script makes of the keys of finexUi.light
Generated ==
    BuildFarmTokenMap(SortKeys({k \in {SortedSyncKeys[i] : i \in 1..Len(SortedSyncKeys)} :
                                   HasOwn(Get(finexTheme, <<"light">>), k)}), 1, Obj(<<>>))

\* main of sync-src-assets.ts: farmTokenMap from the keys of finexUi.light
SyncFarmTokenMap ==
    /\ program = "sync"
    /\ phase = "start"
    /\ farmMap' = IF Generated.kind = "ok" THEN Generated.val ELSE farmMap
    /\ integrity' = IF Generated.kind = "ok" THEN IntegrityOk
                    ELSE IntegrityError(Generated.kind, "farmTokenMap", Generated.val.s,
                                        <<>>, <<>>, "")
    /\ phase' = IF Generated.kind = "ok" THEN "generated" ELSE "failed"
    /\ UNCHANGED <<program, finexTheme, antdTokenMap, antdComponentsMap, tokens, cssVars,
                   antdTheme, tailwindColors, tokensCss, themeOptions, themeBundle>>
    /\ UNCHANGED notThemeVars

\* Farm Tokens the mapping rules of the sync script name
BtnA == <<"btn", "-", "a">>

TipsGrey == <<"tips", "-", "grey">>

\* what a failed pick makes of the run
PickError(pick) == [kind |-> pick.kind, val |-> Str(pick.label)]

\* `const primary = pickFarmToken(farmTokenMap, ['brand-color-brand-2'], ...)`:
\* a rule with one candidate
Primary(map) == pickFarmToken(map, List(<<BtnA>>), <<"colorPrimary">>)

\* `pickFarmToken(farmTokenMap, ['neutral-color-neutral-2', primary], ...)`:
\* a rule that falls back on an earlier pick
PrimaryHover(map) ==
    pickFarmToken(map, List(<<TipsGrey, Primary(map).key>>), <<"colorPrimaryHover">>)

\* the map with the first candidate of each rule, picked or not
buildAntdTokenMapUnpicked(map) ==
    Computed(Obj(<<Entry(<<"colorPrimary">>, Str(BtnA)),
                   Entry(<<"colorPrimaryHover">>, Str(TipsGrey))>>))

\* buildAntdTokenMap: every value of the returned object is a pick; the
\* first pick that finds no candidate throws
buildAntdTokenMap(map) ==
    IF Primary(map).kind # "returned" THEN PickError(Primary(map))
    ELSE IF PrimaryHover(map).kind # "returned" THEN PickError(PrimaryHover(map))
    ELSE Computed(Obj(<<Entry(<<"colorPrimary">>, Str(Primary(map).key)),
                        Entry(<<"colorPrimaryHover">>, Str(PrimaryHover(map).key))>>))

\* `const primaryButton = pickFarmToken(farmTokenMap,
\*    ['button-color-main-button-normal', 'brand-color-brand-2'], ...)`
PrimaryButton(map) ==
    pickFarmToken(map, List(<<TipsGrey, BtnA>>), <<"Button", ".", "colorPrimary">>)

\* buildAntdComponentsMap: per component, an object whose values are picks
buildAntdComponentsMap(map) ==
    IF PrimaryButton(map).kind # "returned" THEN PickError(PrimaryButton(map))
    ELSE Computed(Obj(<<Entry(<<"Button">>,
            Obj(<<Entry(<<"colorPrimary">>, Str(PrimaryButton(map).key)),
                  Entry(<<"colorPrimaryHover">>, Str(PrimaryButton(map).key))>>))>>))

\* main of sync-src-assets.ts: the two antd mappings from farmTokenMap, then
\* the three adapters files are written
SyncAntdMaps ==
    /\ program = "sync"
    /\ phase = "generated"
    /\ IF buildAntdTokenMap(farmMap).kind # "ok"
       THEN /\ integrity' = IntegrityError(buildAntdTokenMap(farmMap).kind, "antdTokenMap",
                                           buildAntdTokenMap(farmMap).val.s, <<>>, <<>>, "")
            /\ phase' = "failed"
            /\ UNCHANGED <<antdTokenMap, antdComponentsMap>>
       ELSE IF buildAntdComponentsMap(farmMap).kind # "ok"
       THEN /\ integrity' = IntegrityError(buildAntdComponentsMap(farmMap).kind,
                                           "antdComponentsMap",
                                           buildAntdComponentsMap(farmMap).val.s, <<>>, <<>>, "")
            /\ phase' = "failed"
            /\ UNCHANGED <<antdTokenMap, antdComponentsMap>>
       ELSE /\ antdTokenMap' = buildAntdTokenMap(farmMap).val
            /\ antdComponentsMap' = buildAntdComponentsMap(farmMap).val
            /\ phase' = "written"
            /\ UNCHANGED integrity
    /\ UNCHANGED <<program, finexTheme, farmMap, tokens, cssVars, antdTheme, tailwindColors,
                   tokensCss, themeOptions, themeBundle>>
    /\ UNCHANGED notThemeVars

\* the entries of the options object that are given
Given(key, choices) == IF choices = <<>> THEN <<>> ELSE <<Entry(<<key>>, Obj(choices))>>

One(key, text) == <<Entry(key, Str(<<text>>))>>

\* options.overrides: Farm Token overrides of one mode
OverrideChoices ==
    {<<>>,
     <<Entry(<<"light">>, Obj(One(<<"a">>, "#f00")))>>,
     <<Entry(<<"light">>, Obj(One(<<"a", "-", "b">>, "#00f"))),
       Entry(<<"dark">>, Obj(One(<<"a", ".", "b">>, "#0f0")))>>}

\* options.antd: global and per-component antd overrides of one mode
AntdChoices ==
    {<<>>,
     <<Entry(<<"light">>, Obj(<<Entry(<<"overrides">>, Obj(One(<<"colorPrimary">>, "#123")))>>))>>,
     <<Entry(<<"light">>, Obj(<<Entry(<<"borderRadius">>, Number("4")),
                               Entry(<<"components">>,
            Obj(<<Entry(<<"Button">>, Obj(One(<<"colorText">>, "#789")))>>))>>))>>,
     <<Entry(<<"light">>, Obj(<<Entry(<<"overrides">>, Obj(One(<<"colorPrimary">>, "#123"))),
                               Entry(<<"components">>,
            Obj(<<Entry(<<"Button">>, Obj(One(<<"colorBg">>, "#456")))>>))>>)),
       Entry(<<"dark">>, Obj(<<Entry(<<"overrides">>, Obj(One(<<"colorLink">>, "#abc")))>>))>>}

\* options.finexUi: a theme of the caller, complete or without K2
CustomThemes ==
    {ByMode(Obj(One(K1, "#c1") \o One(K2, "#c2")), Obj(One(K1, "#e1") \o One(K2, "#e2"))),
     ByMode(Obj(One(K1, "#c1")), Obj(One(K1, "#e1")))}

FinexChoices == {<<>>} \cup {<<Entry(<<"finexUi">>, t)>> : t \in CustomThemes}

ThemeOptions ==
    {Obj(f \o Given("overrides", o) \o Given("antd", n)) :
        f \in FinexChoices, o \in OverrideChoices, n \in AntdChoices}

\* the options of a consumer that calls createTheme more than once
LaterOptions == {Obj(Given("overrides", o)) : o \in OverrideChoices}

\* whether a call of createTheme fills the object the module exports under
\* that name
WritesIntoExportedTokens(exported) == exported = "tokens"

\* It never does: resolveModeTokens, resolveModeCssVars and
\* resolveAntdComponents fill `const result = {}`, resolveAntdTheme fills
\* `const token = {borderRadius: ...}`, and createTheme puts what they
\* return into object literals of its own.
WritesIntoExported(exported) == FALSE

\* the exported object after a call that returned bundle
ExportAfter(exported, current, bundle) ==
    IF WritesIntoExported(exported) /\ bundle.kind = "ok"
    THEN Computed(Get(bundle.val, <<exported>>))
    ELSE current

\* a consumer calls createTheme(options), for the first time or again
CreateTheme ==
    /\ program = "load"
    /\ phase = "ready"
    /\ themeBundle # NotComputed => themeOptions \in LaterOptions
    /\ themeOptions' \in IF themeBundle = NotComputed THEN ThemeOptions ELSE LaterOptions
    /\ themeBundle' = createTheme(farmMap, antdTokenMap, antdComponentsMap, tokens.val,
                                  finexTheme, themeOptions')
    /\ tokens' = ExportAfter("tokens", tokens, themeBundle')
    /\ cssVars' = ExportAfter("cssVars", cssVars, themeBundle')
    /\ antdTheme' = ExportAfter("antdTheme", antdTheme, themeBundle')
    /\ UNCHANGED <<program, finexTheme, farmMap, antdTokenMap, antdComponentsMap, phase, integrity,
                   tailwindColors, tokensCss>>
    /\ UNCHANGED notThemeVars

NextTheme ==
    \/ LoadValidate
    \/ LoadExports
    \/ CreateTokensCss
    \/ CreateTheme
    \/ BuildValidate
    \/ BuildEmit
    \/ SyncFarmTokenMap
    \/ SyncAntdMaps

SpecTheme == InitTheme /\ [][NextTheme]_vars

-----------------------------------------------------------------------------
(* The coverage check: check-antd-coverage.ts over Farm Tokens and, in its     *)
(* second form, over finex keys                                                *)

\* expectedUnusedFarmTokens and expectedUnusedFinexKeys: the allow-lists, one
\* entry of each
expectedUnusedFarmTokens == Obj(<<Entry(<<"tips", "-", "grey">>, Str(<<"reason">>))>>)

expectedUnusedFinexKeys == Obj(<<Entry(<<"Tips", "-", "Grey">>, Str(<<"reason">>))>>)

\* the keys of the Map collectUsage(antdTokenMap, antdComponentsMap) returns
collectUsage(antd, comps) ==
    {antd.e[i].v.s : i \in 1..Len(antd.e)} \cup
    UNION {{comps.e[i].v.e[j].v.s : j \in 1..Len(comps.e[i].v.e)} : i \in 1..Len(comps.e)}

\* argv.includes('--strict')
isStrictMode(args) == \E i \in 1..Len(args) : args[i] = "--strict"

\* unused.filter((token) => !(token in expectedUnused...))
Unexpected(keys, allowed) == SelectSeq(keys, LAMBDA k : ~In(allowed, k))

\* the keys the check counts, sorted
CountedKeys ==
    IF checkVersion = "farm" THEN ObjectKeys(artifacts.source)
    ELSE ObjectKeys(Coalesce(Get(artifacts.source, <<"light">>), Obj(<<>>)))

\* the second form throws when dark misses a key of light or when a mapping
\* refers to a key that is not `in` finexUi.light
CheckThrows ==
    /\ checkVersion = "finex"
    /\ \/ \E i \in 1..Len(CountedKeys) :
            ~HasOwn(Coalesce(Get(artifacts.source, <<"dark">>), Obj(<<>>)), CountedKeys[i])
       \/ \E k \in collectUsage(artifacts.antdTokenMap, artifacts.antdComponentsMap) :
            ~In(Coalesce(Get(artifacts.source, <<"light">>), Obj(<<>>)), k)

CoverageFarmKeys == << <<"a">>, <<"b">>, <<"constructor">>, <<"tips", "-", "grey">> >>

CoverageFinexKeys == << <<"A">>, <<"B">>, <<"Tips", "-", "Grey">>, <<"constructor">> >>

\* the object that has the chosen keys of the list, in the order of the list
Keyed(list, chosen) ==
    Obj([i \in 1..Len(SelectSeq(list, LAMBDA k : k \in chosen)) |->
            Entry(SelectSeq(list, LAMBDA k : k \in chosen)[i], Str(<<"#111">>))])

Range(list) == {list[i] : i \in 1..Len(list)}

CoverageSources ==
    [farm |-> {Keyed(CoverageFarmKeys, c) : c \in SUBSET Range(CoverageFarmKeys)},
     finex |-> {ByMode(Keyed(CoverageFinexKeys, c), Keyed(CoverageFinexKeys, d)) :
                    c \in SUBSET Range(CoverageFinexKeys),
                    d \in SUBSET Range(CoverageFinexKeys)}]

InitCoverage ==
    /\ IdleExceptCoverage
    /\ checkVersion \in {"farm", "finex"}
    /\ argv \in {<<>>, <<"--strict">>, <<"--verbose">>}
    /\ \E source \in CoverageSources[checkVersion] :
       \E k \in OwnKeys(IF checkVersion = "farm" THEN source ELSE Get(source, <<"light">>)) \cup {<<>>} :
       \E c \in OwnKeys(IF checkVersion = "farm" THEN source ELSE Get(source, <<"light">>)) \cup {<<>>} :
          /\ checkVersion = "finex" =>
                Len(Get(source, <<"light">>).e) - Len(Get(source, <<"dark">>).e) \in {0, 1}
          /\ artifacts =
                [source |-> source,
                 antdTokenMap |->
                    IF k = <<>> THEN Obj(<<>>) ELSE Obj(<<Entry(<<"colorPrimary">>, Str(k))>>),
                 antdComponentsMap |->
                    IF c = <<>> THEN Obj(<<>>)
                    ELSE Obj(<<Entry(<<"Button">>, Obj(<<Entry(<<"colorBg">>, Str(c))>>))>>)]
    /\ usage = {}
    /\ unused = <<>>
    /\ checkStep = "start"
    /\ exitCode = 0

\* main up to `if (unused.length === 0) return`
CoverageCollect ==
    /\ checkStep = "start"
    /\ IF CheckThrows
       THEN /\ checkStep' = "thrown"
            /\ exitCode' = 1
            /\ UNCHANGED <<usage, unused>>
       ELSE /\ usage' = collectUsage(artifacts.antdTokenMap, artifacts.antdComponentsMap)
            /\ unused' = SelectSeq(CountedKeys, LAMBDA k : k \notin usage')
            /\ checkStep' = IF unused' = <<>> THEN "done" ELSE "report"
            /\ UNCHANGED exitCode
    /\ UNCHANGED <<checkVersion, argv, artifacts>>
    /\ UNCHANGED notCoverageVars

\* the rest of main: the list of the unused keys and the strict mode
CoverageStrict ==
    /\ checkStep = "report"
    /\ exitCode' =
          IF /\ isStrictMode(argv)
             /\ Unexpected(unused, IF checkVersion = "farm" THEN expectedUnusedFarmTokens
                                    ELSE expectedUnusedFinexKeys) # <<>>
          THEN 1 ELSE exitCode
    /\ checkStep' = "done"
    /\ UNCHANGED <<checkVersion, argv, artifacts, usage, unused>>
    /\ UNCHANGED notCoverageVars

NextCoverage ==
    \/ CoverageCollect
    \/ CoverageStrict

SpecCoverage == InitCoverage /\ [][NextCoverage]_vars

-----------------------------------------------------------------------------
(* The Modal component *)

MaxCalls == 7

MaxPending == 1

\* the props of one rendering: `open` ("undefined" when the Modal is not
\* controlled), disabled, a trigger that is a valid element, closeIcon
\* ("undefined", "false", "null" or an element), what onOk does, children
\* that are a function
ModalPropsPool ==
    [open : {"undefined", "true", "false"},
     disabled : BOOLEAN,
     trigger : BOOLEAN,
     closeIcon : {"undefined", "false", "null", "element"},
     onOk : {"none", "returns", "returnsFalse", "throws", "async"},
     childrenFunction : BOOLEAN]

\* isControlled = !isUndefined(controlledOpen)
isControlled(props) == props.open # "undefined"

\* open = isControlled ? Boolean(controlledOpen) : uncontrolledOpen
IsOpen(props, state) == IF isControlled(props) THEN props.open = "true" ELSE state

NextUncontrolledIgnored(props, state, next) == state

\* setOpen(next): `if (!isControlled) setUncontrolledOpen(next)`
NextUncontrolled(props, state, next) == IF isControlled(props) THEN state ELSE next

\* setOpen(next): `onOpenChange?.(next)`
SetOpenCalls(log, next) == Append(log, <<"onOpenChange", next>>)

\* closeModal: setOpen(false); onCancel?.()
CloseModalCalls(log) == Append(SetOpenCalls(log, FALSE), <<"onCancel">>)

\* shouldShowCloseIcon = closeIcon !== false && closeIcon !== null
shouldShowCloseIcon(props) == props.closeIcon \notin {"false", "null"}

InitModal ==
    /\ IdleExceptModal
    /\ modalProps \in ModalPropsPool
    /\ uncontrolledOpen = FALSE
    /\ pendingOk = 0
    /\ calls = <<>>
    /\ lastEvent = "render"

\* closeModal() after the user event named
CloseModal(event) ==
    /\ Len(calls) + 2 <= MaxCalls
    /\ uncontrolledOpen' = NextUncontrolled(modalProps, uncontrolledOpen, FALSE)
    /\ calls' = CloseModalCalls(calls)
    /\ lastEvent' = event
    /\ UNCHANGED <<modalProps, pendingOk>>
    /\ UNCHANGED notModalVars

\* onTriggerClick: a click on the trigger element
TriggerClick ==
    /\ modalProps.trigger
    /\ Len(calls) + 2 <= MaxCalls
    /\ IF modalProps.disabled
       THEN UNCHANGED <<uncontrolledOpen, calls>>
       ELSE /\ uncontrolledOpen' = NextUncontrolled(modalProps, uncontrolledOpen, TRUE)
            /\ calls' = Append(SetOpenCalls(calls, TRUE), <<"trigger.onClick">>)
    /\ lastEvent' = "trigger"
    /\ UNCHANGED <<modalProps, pendingOk>>
    /\ UNCHANGED notModalVars

\* handleCancel from the close button of the title bar
CloseClick ==
    /\ IsOpen(modalProps, uncontrolledOpen)
    /\ shouldShowCloseIcon(modalProps)
    /\ CloseModal("close")

\* onCancelClick of the footer: handleCancel from the cancel button
CancelClick ==
    /\ IsOpen(modalProps, uncontrolledOpen)
    /\ CloseModal("cancel")

\* onCancel={handleCancel} of the antd Modal: a click on the mask
MaskClick ==
    /\ IsOpen(modalProps, uncontrolledOpen)
    /\ CloseModal("mask")

\* onCancel={handleCancel} of the antd Modal: the Esc key
EscKey ==
    /\ IsOpen(modalProps, uncontrolledOpen)
    /\ CloseModal("esc")

\* the onClose that function children were given
ChildOnClose ==
    /\ IsOpen(modalProps, uncontrolledOpen)
    /\ modalProps.childrenFunction
    /\ CloseModal("onClose")

\* ref.close() of useImperativeHandle
RefClose == CloseModal("ref.close")

\* ref.open() of useImperativeHandle
RefOpen ==
    /\ Len(calls) + 1 <= MaxCalls
    /\ uncontrolledOpen' = NextUncontrolled(modalProps, uncontrolledOpen, TRUE)
    /\ calls' = SetOpenCalls(calls, TRUE)
    /\ lastEvent' = "ref.open"
    /\ UNCHANGED <<modalProps, pendingOk>>
    /\ UNCHANGED notModalVars

ClosesAfterOkAlways(res) == TRUE

\* handleOk: `if (res !== false) closeModal()`
ClosesAfterOk(res) == res # "false"

\* what a call of onOk that is not asynchronous gives handleOk: a value, false
\* or an exception
OkResult(props) ==
    CASE props.onOk = "returns" -> "value"
      [] props.onOk = "returnsFalse" -> "false"
      [] OTHER -> "thrown"

\* the rest of handleOk once onOk gave res, after the user event named
AfterOk(res, event, log) ==
    /\ IF res # "thrown" /\ ClosesAfterOk(res)
       THEN /\ Len(log) + 2 <= MaxCalls
            /\ uncontrolledOpen' = NextUncontrolled(modalProps, uncontrolledOpen, FALSE)
            /\ calls' = CloseModalCalls(log)
       ELSE /\ uncontrolledOpen' = uncontrolledOpen
            /\ calls' = log
    /\ lastEvent' = event

\* handleOk up to the await: a click on the OK button
OkClick ==
    /\ IsOpen(modalProps, uncontrolledOpen)
    /\ CASE modalProps.onOk = "none" -> CloseModal("ok")
         [] modalProps.onOk = "async" ->
                /\ pendingOk < MaxPending
                /\ Len(calls) + 1 <= MaxCalls
                /\ pendingOk' = pendingOk + 1
                /\ calls' = Append(calls, <<"onOk">>)
                /\ lastEvent' = "ok"
                /\ UNCHANGED <<modalProps, uncontrolledOpen>>
                /\ UNCHANGED notModalVars
         [] OTHER ->
                /\ Len(calls) + 1 <= MaxCalls
                /\ AfterOk(OkResult(modalProps), "ok", Append(calls, <<"onOk">>))
                /\ UNCHANGED <<modalProps, pendingOk>>
                /\ UNCHANGED notModalVars

\* handleOk after the await: the promise of onOk resolves to a value, to
\* false, or rejects
OkSettle ==
    /\ pendingOk > 0
    /\ \E res \in {"value", "false", "thrown"} :
          AfterOk(res, CASE res = "value" -> "resolved"
                         [] res = "false" -> "resolvedFalse"
                         [] OTHER -> "rejected", calls)
    /\ pendingOk' = pendingOk - 1
    /\ UNCHANGED modalProps
    /\ UNCHANGED notModalVars

NextModal ==
    \/ TriggerClick
    \/ CloseClick
    \/ CancelClick
    \/ MaskClick
    \/ EscKey
    \/ ChildOnClose
    \/ RefClose
    \/ RefOpen
    \/ OkClick
    \/ OkSettle

SpecModal == InitModal /\ [][NextModal]_vars

-----------------------------------------------------------------------------
(* FarmProvider with scope "document": useDocumentThemeMode writes the mode
   to the data-theme attribute of <html> and its cleanup puts back what the
   attribute held when the effect ran.  An absent attribute is "null". *)

ThemeModes == {"light", "dark"}

Scopes == {"document", "wrap"}

\* `const prev = el.getAttribute('data-theme')` of an effect that got past
\* `if (scope !== 'document') return`
CapturedPrev(el, scope) == IF scope = "document" THEN el ELSE "none"

\* `el.setAttribute('data-theme', mode)`
AfterEffect(el, scope, mode) == IF scope = "document" THEN mode ELSE el

\* the cleanup: removeAttribute when prev is null, else setAttribute(prev)
AfterCleanup(el, provider) ==
    IF provider.scope # "document" THEN el
    ELSE IF provider.prev = "null" THEN "null" ELSE provider.prev

\* the provider after its effect ran on el
Mounted(el, scope, mode) ==
    [mounted |-> TRUE, scope |-> scope, mode |-> mode, prev |-> CapturedPrev(el, scope)]

InitProviders ==
    /\ IdleExceptDocument
    /\ dataTheme \in {"null"} \cup ThemeModes
    /\ themeBefore = dataTheme
    /\ providers = [p \in 1..MaxProviders |-> NotMounted]
    /\ prefersColor = "null"
    /\ systemDark = FALSE
    /\ hasMatchMedia = FALSE
    /\ docsMode = "none"
    /\ docsPhase = "idle"
    /\ observerPending = FALSE

docsVars == <<prefersColor, systemDark, hasMatchMedia, docsMode, docsPhase, observerPending>>

\* <FarmProvider scope mode> mounts: its effect runs
Mount(p, scope, mode) ==
    /\ docsPhase = "idle"
    /\ ~providers[p].mounted
    /\ providers' = [providers EXCEPT ![p] = Mounted(dataTheme, scope, mode)]
    /\ dataTheme' = AfterEffect(dataTheme, scope, mode)
    /\ UNCHANGED <<themeBefore, docsVars>>
    /\ UNCHANGED notDocumentVars

\* the provider renders with another scope or mode: [scope, mode] changed,
\* so the cleanup of the last effect runs and then the effect again
Rerender(p, scope, mode) ==
    /\ docsPhase = "idle"
    /\ providers[p].mounted
    /\ <<scope, mode>> # <<providers[p].scope, providers[p].mode>>
    /\ providers' =
          [providers EXCEPT ![p] = Mounted(AfterCleanup(dataTheme, providers[p]), scope, mode)]
    /\ dataTheme' = AfterEffect(AfterCleanup(dataTheme, providers[p]), scope, mode)
    /\ UNCHANGED <<themeBefore, docsVars>>
    /\ UNCHANGED notDocumentVars

\* the provider unmounts: the cleanup of its last effect runs
Unmount(p) ==
    /\ docsPhase = "idle"
    /\ providers[p].mounted
    /\ providers' = [providers EXCEPT ![p] = NotMounted]
    /\ dataTheme' = AfterCleanup(dataTheme, providers[p])
    /\ UNCHANGED <<themeBefore, docsVars>>
    /\ UNCHANGED notDocumentVars

NextProviders ==
    \/ \E p \in 1..MaxProviders, scope \in Scopes, mode \in ThemeModes : Mount(p, scope, mode)
    \/ \E p \in 1..MaxProviders, scope \in Scopes, mode \in ThemeModes : Rerender(p, scope, mode)
    \/ \E p \in 1..MaxProviders : Unmount(p)

SpecProviders == InitProviders /\ [][NextProviders]_vars

-----------------------------------------------------------------------------
(* The docs site: DocsThemeProvider renders <FarmProvider mode={mode}> with
   the mode useDumiPrefersColorMode returns.  Its FarmProvider is provider 1. *)

\* what data-prefers-color can hold: absent, or one of these strings
PrefersColors == {"null", "auto", "light", "dark", "other"}

readModeSystemOnly(attr, supported, dark) ==
    IF supported /\ dark THEN "dark" ELSE "light"

readMode(attr, supported, dark) ==
    IF attr = "dark" THEN "dark"
    ELSE IF attr = "light" THEN "light"
    ELSE IF ~supported THEN "light"
    ELSE IF dark THEN "dark" ELSE "light"

\* onMqlChange: `if (!value || value === 'auto') update()`
MqlChangeUpdates(attr) == attr = "null" \/ attr = "auto"

\* the first render: useState(() => readMode()); no effect has run yet
InitDocs ==
    /\ IdleExceptDocument
    /\ dataTheme \in {"null"} \cup ThemeModes
    /\ themeBefore = dataTheme
    /\ providers = [p \in 1..MaxProviders |-> NotMounted]
    /\ prefersColor \in PrefersColors
    /\ systemDark \in BOOLEAN
    /\ hasMatchMedia \in BOOLEAN
    /\ docsMode = readMode(prefersColor, hasMatchMedia, systemDark)
    /\ docsPhase = "rendered"
    /\ observerPending = FALSE

\* the effects of the first render run, the child's first: FarmProvider
\* writes the rendered mode, then the hook calls update(), observes the
\* attribute and listens to the media query
DocsMountEffects ==
    /\ docsPhase = "rendered"
    /\ providers' = [providers EXCEPT ![1] = Mounted(dataTheme, "document", docsMode)]
    /\ dataTheme' = AfterEffect(dataTheme, "document", docsMode)
    /\ docsMode' = readMode(prefersColor, hasMatchMedia, systemDark)
    /\ docsPhase' = "observing"
    /\ UNCHANGED <<themeBefore, prefersColor, systemDark, hasMatchMedia, observerPending>>
    /\ UNCHANGED notDocumentVars

\* something sets or removes html[data-prefers-color]; an observer that is
\* connected gets a mutation record
SetPrefersColor(attr) ==
    /\ docsPhase \in {"rendered", "observing"}
    /\ attr # prefersColor
    /\ prefersColor' = attr
    /\ observerPending' = (observerPending \/ docsPhase = "observing")
    /\ UNCHANGED <<dataTheme, themeBefore, providers, systemDark, hasMatchMedia,
                   docsMode, docsPhase>>
    /\ UNCHANGED notDocumentVars

\* the MutationObserver callback: update()
ObserverCallback ==
    /\ observerPending
    /\ observerPending' = FALSE
    /\ docsMode' = readMode(prefersColor, hasMatchMedia, systemDark)
    /\ UNCHANGED <<dataTheme, themeBefore, providers, prefersColor, systemDark,
                   hasMatchMedia, docsPhase>>
    /\ UNCHANGED notDocumentVars

\* the system colour scheme changes; the change listener, once added, runs
\* onMqlChange
SystemChange ==
    /\ docsPhase \in {"rendered", "observing"}
    /\ systemDark' = ~systemDark
    /\ docsMode' =
          IF docsPhase = "observing" /\ hasMatchMedia /\ MqlChangeUpdates(prefersColor)
          THEN readMode(prefersColor, hasMatchMedia, systemDark')
          ELSE docsMode
    /\ UNCHANGED <<dataTheme, themeBefore, providers, prefersColor, hasMatchMedia,
                   docsPhase, observerPending>>
    /\ UNCHANGED notDocumentVars

\* React renders DocsThemeProvider with the new state and commits: the mode
\* prop of FarmProvider changed, so its cleanup and its effect run
DocsCommit ==
    /\ docsPhase = "observing"
    /\ providers[1].mode # docsMode
    /\ providers' =
          [providers EXCEPT
              ![1] = Mounted(AfterCleanup(dataTheme, providers[1]), "document", docsMode)]
    /\ dataTheme' = AfterEffect(AfterCleanup(dataTheme, providers[1]), "document", docsMode)
    /\ UNCHANGED <<themeBefore, docsVars>>
    /\ UNCHANGED notDocumentVars

NextDocs ==
    \/ DocsMountEffects
    \/ \E attr \in PrefersColors : SetPrefersColor(attr)
    \/ ObserverCallback
    \/ SystemChange
    \/ DocsCommit

\* the effects of a committed render run, a queued mutation record is
\* delivered, and a state change is rendered and committed
SpecDocs ==
    /\ InitDocs
    /\ [][NextDocs]_vars
    /\ WF_vars(DocsMountEffects)
    /\ WF_vars(ObserverCallback)
    /\ WF_vars(DocsCommit)

-----------------------------------------------------------------------------
(* The whole model *)

Init ==
    \/ InitResolve \/ InitNormalize \/ InitPick \/ InitTheme \/ InitCoverage \/ InitModal
    \/ InitProviders \/ InitDocs

Next ==
    \/ NextResolve \/ NextNormalize \/ NextPick \/ NextTheme \/ NextCoverage \/ NextModal
    \/ NextProviders \/ NextDocs

Spec == Init /\ [][Next]_vars

-----------------------------------------------------------------------------
(* What the claims say about the resolver, stated without the code's own    *)
(* functions.                                                               *)

\* s has the reference syntax "{...}": braces around one character at least,
\* surrounding white space ignored.
IsReference(s) ==
    \E a, b \in 0..Len(s) :
        /\ a + b + 3 <= Len(s)
        /\ \A i \in 1..a : s[i] = " "
        /\ \A i \in (Len(s) - b + 1)..Len(s) : s[i] = " "
        /\ s[a + 1] = "{"
        /\ s[Len(s) - b] = "}"

\* the key a reference names
RefTarget(s) ==
    LET a == CHOOSE n \in 0..Len(s) : s[n + 1] # " "
        b == CHOOSE n \in 0..Len(s) : s[Len(s) - n] # " "
    IN SubSeq(s, a + 2, Len(s) - b - 1)

\* Where the chain of references that starts at s ends, following only keys
\* the lookup itself holds: in a literal, at a key absent from the lookup, or
\* nowhere (after as many hops as there are keys the next hop repeats a key).
RECURSIVE ChainEnd(_, _, _)
ChainEnd(lk, s, fuel) ==
    IF ~IsReference(s) THEN [kind |-> "literal", val |-> s]
    ELSE IF ~HasOwn(lk, RefTarget(s)) THEN [kind |-> "absent", val |-> RefTarget(s)]
    ELSE IF fuel = 0 THEN [kind |-> "cycle", val |-> <<>>]
    ELSE ChainEnd(lk, GetOwn(lk, RefTarget(s)).s, fuel - 1)

Chain == ChainEnd(lookup, value0, Cardinality(OwnKeys(lookup)))

ResolveDone == outcome \notin {"idle", "running"}

\* C1: resolve returns value unchanged when value has not the reference
\* syntax, and for every acyclic chain of references of the lookup that ends
\* in a literal it returns exactly that literal.
C1_ResolveReturnsChainLiteral ==
    ResolveDone =>
        /\ ~IsReference(value0) => outcome = "returned" /\ result = value0
        /\ Chain.kind = "literal" => outcome = "returned" /\ result = Chain.val

\* C1 witness: a chain of two references (reference to reference) resolved to
\* its literal.
C1_Witness ==
    /\ outcome = "returned"
    /\ Len(stack) >= 2
    /\ IsReference(value0)
    /\ result = <<"#ffffff">>

\* C2: when following the references from value revisits a reference, resolve
\* raises the cycle error, never returns a value and never recurses beyond one
\* invocation per key plus one.
C2_CycleRaisesCycleError ==
    (outcome # "idle" /\ Chain.kind = "cycle") =>
        /\ outcome \in {"running", "CycleError"}
        /\ depth <= Cardinality(OwnKeys(lookup)) + 1
        /\ outcome = "CycleError" => InSeq(errRef, stack)

\* C2 witness: lookup["A"] = "{A}" and value "{A}" ended in the cycle error.
C2_Witness ==
    /\ outcome = "CycleError"
    /\ value0 = RefTo(<<"A">>)
    /\ HasOwn(lookup, <<"A">>)
    /\ GetOwn(lookup, <<"A">>) = Str(RefTo(<<"A">>))

\* C3: whenever resolve follows a reference whose target key is absent from
\* the lookup, it raises the unresolved-reference error naming that reference
\* and returns no value.
C3_AbsentRaisesUnresolved ==
    (ResolveDone /\ Chain.kind = "absent") =>
        outcome = "UnresolvedReferenceError" /\ errRef = Chain.val

\* C4: resolve ends in a returned literal, a cycle error or an
\* unresolved-reference error, and its recursion depth never exceeds the
\* number of distinct keys of the lookup plus one.
C4_TerminatesWithinKeys ==
    outcome # "idle" =>
        /\ outcome \in {"running", "returned", "CycleError", "UnresolvedReferenceError"}
        /\ depth <= Cardinality(OwnKeys(lookup)) + 1

-----------------------------------------------------------------------------
(* What the claims say about normalisation *)

\* the leaves of a tree with their paths: [path, leaf]
RECURSIVE LeavesUnder(_, _)
LeavesUnder(tree, prefix) ==
    IF ~isRecord(tree) THEN {}
    ELSE UNION { IF isTokenLeaf(tree.e[i].v)
                 THEN {[path |-> Append(prefix, tree.e[i].k), leaf |-> tree.e[i].v]}
                 ELSE LeavesUnder(tree.e[i].v, Append(prefix, tree.e[i].k))
                 : i \in 1..Len(tree.e) }

IsColorLeaf(leaf) == HasOwn(leaf, <<"type">>) /\ GetOwn(leaf, <<"type">>) = Str(<<"color">>)

KeysEnding(r, suffix) == {k \in OwnKeys(r) : k[Len(k)] = suffix}

HasObject(r, key) == r.t = "object" /\ HasOwn(r, key) /\ GetOwn(r, key).t = "object"

\* raw already has object-valued light and dark properties
HasLightDark(r) == HasObject(r, <<"light">>) /\ HasObject(r, <<"dark">>)

\* raw is an export with base/base, one group ending in /Light and one in /Dark
IsExport(r) ==
    /\ ~HasLightDark(r)
    /\ HasObject(r, <<"base/base">>)
    /\ Cardinality(KeysEnding(r, "/Light")) = 1
    /\ Cardinality(KeysEnding(r, "/Dark")) = 1

GroupEnding(r, suffix) == GetOwn(r, CHOOSE k \in KeysEnding(r, suffix) : TRUE)

\* the leaf value fully resolved against the flat lookup of base/base
ResolvedAgainstBase(r, leaf) ==
    LET baseLookup == collectTokenValues(GetOwn(r, <<"base/base">>), <<>>, Obj(<<>>))
    IN ChainEnd(baseLookup, GetOwn(leaf, <<"value">>).s, Cardinality(OwnKeys(baseLookup)))

\* the mode map holds every colour leaf of the group under its flat key,
\* with the resolved value
HoldsColorLeaves(map, r, suffix) ==
    \A pl \in LeavesUnder(GroupEnding(r, suffix), <<>>) :
        IsColorLeaf(pl.leaf) =>
            /\ HasOwn(map, toFinexKey(pl.path))
            /\ GetOwn(map, toFinexKey(pl.path)) = Str(ResolvedAgainstBase(r, pl.leaf).val)

Normalized == finexUi.kind = "ok"

\* C5: for an export with base/base, a /Light group and a /Dark group,
\* normalize returns {light, dark} where each mode map holds, for every
\* colour leaf at path p of that mode's group, the flat key of p mapped to
\* the leaf value resolved against the flat lookup of base/base.
C5_ModeMapsHoldEveryColorLeaf ==
    (entry = "sync" /\ Normalized /\ IsExport(raw)) =>
        /\ HoldsColorLeaves(GetOwn(finexUi.theme, <<"light">>), raw, "/Light")
        /\ HoldsColorLeaves(GetOwn(finexUi.theme, <<"dark">>), raw, "/Dark")

\* The example of C5: Light Bg = "{Grey.18}", base Grey.18 = "#ffffff" and
\* Dark Bg = "#000000" give {light: {Bg: "#ffffff"}, dark: {Bg: "#000000"}}.
ScenarioLightDark ==
    (entry = "sync" /\ pc # "start" /\ raw = Export(BaseTree, LightBg, DarkBg)) =>
        /\ Normalized
        /\ finexUi.theme =
              Obj(<< Entry(<<"light">>, Obj(<<Entry(<<"Bg">>, Str(<<"#ffffff">>))>>)),
                     Entry(<<"dark">>, Obj(<<Entry(<<"Bg">>, Str(<<"#000000">>))>>)) >>)

\* C6: an input that already has object-valued light and dark is returned
\* as it is, and normalize(normalize(raw)) = normalize(raw) whenever
\* normalize(raw) succeeds.
C6_NormalizeIdempotent ==
    /\ (finexUi.kind # "none" /\ HasLightDark(raw)) => (Normalized /\ finexUi.theme = raw)
    /\ again.kind # "none" => again = finexUi

\* C6 witness: an export was normalised (slow path) to a theme with a key,
\* and that theme was normalised again.
C6_Witness ==
    /\ again.kind = "ok"
    /\ IsExport(raw)
    /\ OwnKeys(GetOwn(finexUi.theme, <<"light">>)) # {}

KeySetsEqual(theme) ==
    OwnKeys(GetOwn(theme, <<"light">>)) = OwnKeys(GetOwn(theme, <<"dark">>))

ProgramEnded == pc \in {"keysChecked", "loaded", "built", "failed"}

\* C7: normalisation never yields a Resolved Theme whose light and dark key
\* sets differ: whenever a key is in one mode and not in the other, a
\* key-skew error naming the missing keys is raised.
C7_NoSkewedTheme ==
    (ProgramEnded /\ Normalized /\ ~KeySetsEqual(finexUi.theme)) =>
        /\ pc = "failed"
        /\ mainError.kind = "KeySkewError"
        /\ Len(mainError.missingInDark) + Len(mainError.missingInLight) > 0

\* raw does not meet what the slow path needs, "exactly one" group each
ShapeBadExactlyOne(r) ==
    \/ r.t # "object"
    \/ ~HasOwn(r, <<"base/base">>)
    \/ Cardinality(KeysEnding(r, "/Light")) # 1
    \/ Cardinality(KeysEnding(r, "/Dark")) # 1

\* the same with "at least one" group each and base/base an object
ShapeBadAtLeastOne(r) ==
    \/ r.t # "object"
    \/ ~HasObject(r, <<"base/base">>)
    \/ KeysEnding(r, "/Light") = {}
    \/ KeysEnding(r, "/Dark") = {}

ShapeErrors == {"MalformedInputError", "MissingSectionError"}

\* C8 as stated: on the slow path, if raw is not an object, base/base is
\* missing, or there is not exactly one /Light key and exactly one /Dark key,
\* normalize raises an error and returns no theme.
C8_ExactlyOneGroupRequired ==
    (finexUi.kind # "none" /\ ~HasLightDark(raw) /\ ShapeBadExactlyOne(raw)) =>
        ~Normalized

\* C8 amended: on the slow path normalize raises a shape error and returns no
\* theme if and only if raw is not an object, base/base is not an object, no
\* key ends in /Light or no key ends in /Dark; further Light or Dark groups
\* are ignored (the first of each in key order is the one flattened).
C8_AtLeastOneGroupRequired ==
    (finexUi.kind # "none" /\ ~HasLightDark(raw)) =>
        /\ ShapeBadAtLeastOne(raw) <=> finexUi.kind \in ShapeErrors
        /\ ShapeBadAtLeastOne(raw) => finexUi.theme = Undefined
        /\ (Normalized /\ entry = "sync") =>
              /\ OwnKeys(GetOwn(finexUi.theme, <<"light">>)) \subseteq
                    {toFinexKey(pl.path) :
                        pl \in LeavesUnder(GetOwn(raw, FindKey(raw, "/Light")), <<>>)}
              /\ OwnKeys(GetOwn(finexUi.theme, <<"dark">>)) \subseteq
                    {toFinexKey(pl.path) :
                        pl \in LeavesUnder(GetOwn(raw, FindKey(raw, "/Dark")), <<>>)}

\* C8 witness: an object with a Light group and no Dark group was rejected.
C8_Witness ==
    /\ finexUi.kind = "MissingSectionError"
    /\ HasObject(raw, <<"base/base">>)
    /\ KeysEnding(raw, "/Light") # {}
    /\ KeysEnding(raw, "/Dark") = {}

\* the flat keys of the colour leaves of a group
ColorKeys(r, suffix) ==
    {toFinexKey(pl.path) :
        pl \in {q \in LeavesUnder(GroupEnding(r, suffix), <<>>) : IsColorLeaf(q.leaf)}}

\* C9: in every normalisation path (sync script, build script, runtime
\* loader) a leaf of a Light/Dark group whose declared type is not "color"
\* never becomes a key of the light or dark map, while every leaf of
\* base/base is in the reference lookup whatever its declared type.
C9_OnlyColorLeavesBecomeKeys ==
    (Normalized /\ IsExport(raw)) =>
        /\ OwnKeys(GetOwn(finexUi.theme, <<"light">>)) \subseteq ColorKeys(raw, "/Light")
        /\ OwnKeys(GetOwn(finexUi.theme, <<"dark">>)) \subseteq ColorKeys(raw, "/Dark")
        /\ \A pl \in LeavesUnder(GetOwn(raw, <<"base/base">>), <<>>) :
              HasOwn(collectTokenValues(GetOwn(raw, <<"base/base">>), <<>>, Obj(<<>>)),
                     Join(pl.path, "."))

-----------------------------------------------------------------------------
(* What the claims say about candidate selection *)

\* the candidates as a list: a bare key is a one-element list
CandidateList == IF candidates.t = "string" THEN <<candidates.s>> ELSE candidates.e

\* the keys that are members of what the call was given
Members == IF picker = "pickFinexKey" THEN available ELSE OwnKeys(farmTokenMap)

MemberPositions == {i \in 1..Len(CandidateList) : CandidateList[i] \in Members}

FirstMember == CandidateList[CHOOSE i \in MemberPositions : \A j \in MemberPositions : i <= j]

PickDone == picked.kind # "none"

\* C10: pick treats a bare key as a one-element list and returns the first
\* candidate, in list order, that is a member of available; it raises a
\* no-candidate error naming label and the candidate list if and only if no
\* candidate is a member.
C10_PickFirstMember ==
    PickDone =>
        IF MemberPositions # {}
        THEN picked.kind = "returned" /\ picked.key = FirstMember
        ELSE /\ picked.kind = "NoCandidateError"
             /\ picked.label = label
             /\ picked.list = CandidateList

\* The same for the calls of pickFinexKey alone.
PickFinexKeyFirstMember == picker = "pickFinexKey" => C10_PickFirstMember

\* The example of C10: ["new-key", "old-key"] with only old-key available
\* gives "old-key".
ScenarioOldKey ==
    (PickDone /\ candidates = List(<< <<"new-key">>, <<"old-key">> >>)
        /\ Members = {<<"old-key">>}) =>
        picked = Picked(<<"old-key">>)

-----------------------------------------------------------------------------
(* The integrity validation *)

\* a key the object holds itself
OwnKey(obj, key) == obj.t = "object" /\ \E i \in 1..Len(obj.e) : obj.e[i].k = key

FinexLight == Get(finexTheme, <<"light">>)

FinexDark == Get(finexTheme, <<"dark">>)

\* the Farm Token is mapped to a finex key that light and dark both hold
ResolvesInBothModes(token) ==
    \E i \in 1..Len(farmMap.e) :
        /\ farmMap.e[i].k = token
        /\ OwnKey(FinexLight, farmMap.e[i].v.s)
        /\ OwnKey(FinexDark, farmMap.e[i].v.s)

\* the entries of the global and of the per-component antd mapping
GlobalEntries ==
    {[table |-> "antdTokenMap", name |-> antdTokenMap.e[i].k, sub |-> <<>>,
      token |-> antdTokenMap.e[i].v.s] : i \in 1..Len(antdTokenMap.e)}

ComponentEntriesOf(i) ==
    IF ~isRecord(antdComponentsMap.e[i].v) THEN {}
    ELSE {[table |-> "antdComponentsMap", name |-> antdComponentsMap.e[i].k,
           sub |-> antdComponentsMap.e[i].v.e[j].k, token |-> antdComponentsMap.e[i].v.e[j].v.s] :
             j \in 1..Len(antdComponentsMap.e[i].v.e)}

ComponentEntries == UNION {ComponentEntriesOf(i) : i \in 1..Len(antdComponentsMap.e)}

ValidationCompleted == phase \in {"validated", "ready", "emitted"}

\* the raised error names an entry of a table and the key that entry misses
ErrorIdentifiesEntry ==
    CASE integrity.kind = "MissingTokenError" ->
            /\ [table |-> integrity.table, name |-> integrity.name, sub |-> integrity.sub,
                token |-> integrity.key] \in GlobalEntries \cup ComponentEntries
            /\ ~OwnKey(farmMap, integrity.key)
      [] integrity.kind = "MissingKeyError" ->
            /\ \E i \in 1..Len(farmMap.e) :
                  farmMap.e[i].k = integrity.name /\ farmMap.e[i].v.s = integrity.key
            /\ ~OwnKey(IF integrity.mode = "light" THEN FinexLight ELSE FinexDark, integrity.key)
      [] integrity.kind = "InvalidNameError" -> OwnKey(farmMap, integrity.name)
      [] integrity.kind = "NotObjectError" ->
            \E i \in 1..Len(antdComponentsMap.e) :
                antdComponentsMap.e[i].k = integrity.name /\ ~isRecord(antdComponentsMap.e[i].v)
      [] OTHER -> FALSE

\* C11: at load and at build, when the integrity validation completes every
\* entry of the global and of the per-component mapping resolves to a finex
\* key that the light and the dark theme both hold; otherwise an error is
\* raised that names the offending entry and the missing key.
C11_ValidatedMappingsResolve ==
    program \in {"load", "build"} =>
        /\ ValidationCompleted =>
              \A m \in GlobalEntries \cup ComponentEntries : ResolvesInBothModes(m.token)
        /\ phase = "failed" => ErrorIdentifiesEntry

\* the same at load only, where own keys are tested
LoadValidatedMappingsResolve == program = "load" => C11_ValidatedMappingsResolve

\* a build goes on although the global mapping points to no Farm Token
ScenarioInheritedTarget ==
    /\ program = "build"
    /\ ValidationCompleted
    /\ \E m \in GlobalEntries : m.token = <<"constructor">> /\ ~OwnKey(farmMap, m.token)

-----------------------------------------------------------------------------
(* Token names *)

\* the characters of [a-z0-9-]
PatternClass == {"a", "b", "1", "-", "zz", "constructor", "tips", "grey", "btn", "key", "warn"}

\* ^[a-z0-9-]+(\.[a-z0-9-]+)*$ read from position i; inSegment says that the
\* segment being read already has a character
RECURSIVE MatchesFrom(_, _, _)
MatchesFrom(s, i, inSegment) ==
    IF i > Len(s) THEN inSegment
    ELSE IF s[i] \in PatternClass THEN MatchesFrom(s, i + 1, TRUE)
    ELSE IF s[i] = "." /\ inSegment THEN MatchesFrom(s, i + 1, FALSE)
    ELSE FALSE

MatchesPattern(token) == MatchesFrom(token, 1, FALSE)

\* --farm- followed by characters of [a-z0-9-] only
WellFormedCssVar(name) ==
    /\ Len(name) > 1
    /\ name[1] = "--farm-"
    /\ \A i \in 2..Len(name) : name[i] \in PatternClass

\* the names the program is given: the keys of the mapping table at load and
\* at build, the names made of the finex keys at generation
NamesGiven ==
    IF program = "sync"
    THEN {toFarmToken(FinexLight.e[i].k) : i \in 1..Len(FinexLight.e)}
    ELSE {farmMap.e[i].k : i \in 1..Len(farmMap.e)}

NamesAccepted ==
    IF ValidationCompleted \/ phase \in {"generated", "written"}
    THEN {farmMap.e[i].k : i \in 1..Len(farmMap.e)}
    ELSE {}

\* C12: every token name accepted by generation and by the load and build
\* validation matches ^[a-z0-9-]+(\.[a-z0-9-]+)*$ and its CSS variable is
\* --farm- followed by characters of [a-z0-9-]; a name that violates the
\* pattern makes the program raise an error.
C12_AcceptedNamesMatchPattern ==
    /\ \A t \in NamesAccepted : MatchesPattern(t) /\ WellFormedCssVar(cssVarName(t))
    /\ (phase # "start" /\ \E t \in NamesGiven : ~MatchesPattern(t)) =>
            phase = "failed" /\ integrity.kind \notin {"ok", "none"}

\* a segmented name is accepted at load
C12_Witness ==
    /\ program = "load"
    /\ phase = "ready"
    /\ <<"a", ".", "b">> \in NamesAccepted

\* a finex key with "/" is refused at generation
ScenarioSlashKey ==
    /\ program = "sync"
    /\ phase = "failed"
    /\ integrity.kind = "InvalidNameError"

-----------------------------------------------------------------------------
(* Validation at load *)

\* what the load has exposed
Exposed == {v \in {tokens, cssVars, antdTheme, tailwindColors} : v # NotComputed}

\* the tables agree: valid names, finex keys in both modes, every antd entry
\* on a Farm Token, every component table an object
Consistent ==
    /\ \A i \in 1..Len(farmMap.e) :
          /\ MatchesPattern(farmMap.e[i].k)
          /\ ResolvesInBothModes(farmMap.e[i].k)
    /\ \A i \in 1..Len(antdComponentsMap.e) : antdComponentsMap.e[i].v.t = "object"
    /\ \A m \in GlobalEntries \cup ComponentEntries : OwnKey(farmMap, m.token)

\* C13: at load the validation runs before any derived value (tokens,
\* cssVars, antdTheme, tailwindColors) is computed; when the tables are
\* inconsistent the load fails and nothing is exposed.
C13_NothingExposedBeforeValidation ==
    program = "load" =>
        /\ Exposed # {} => integrity.kind = "ok" /\ Consistent
        /\ (phase # "start" /\ ~Consistent) => phase = "failed" /\ Exposed = {}
        /\ (phase # "start" /\ Consistent) => phase # "failed"

\* a load that failed on an antd entry, and one that went through
C13_Witness ==
    /\ program = "load"
    /\ \/ phase = "failed" /\ integrity.kind = "MissingTokenError" /\ Exposed = {}
       \/ phase = "ready" /\ Cardinality(Exposed) = 4 /\ Len(antdTokenMap.e) = 1

-----------------------------------------------------------------------------
(* The emitted CSS, read back *)

\* the positions of the set, in increasing order
RECURSIVE Ascending(_)
Ascending(positions) ==
    IF positions = {} THEN <<>>
    ELSE <<CHOOSE p \in positions : \A q \in positions : p <= q>> \o
         Ascending(positions \ {CHOOSE p \in positions : \A q \in positions : p <= q})

\* the first position after p that holds the character
NextAt(css, p, c) == CHOOSE q \in (p + 1)..Len(css) :
                        css[q] = c /\ \A r \in (p + 1)..(q - 1) : css[r] # c

\* the declaration that starts with the indentation at p: name before ": ",
\* value before ";"
DeclarationAt(css, p) ==
    [name |-> SubSeq(css, p + 1, NextAt(css, p, ":") - 1),
     value |-> SubSeq(css, NextAt(css, p, ":") + 2, NextAt(css, p, ";") - 1)]

\* the block that opens at p: its selector and its declarations in order
BlockAt(css, p) ==
    [selector |-> css[p - 2],
     declarations |->
        [i \in 1..Len(Ascending({q \in p..NextAt(css, p, "}") : css[q] = "  "})) |->
            DeclarationAt(css, Ascending({q \in p..NextAt(css, p, "}") : css[q] = "  "})[i])]]

ParsedBlocks(css) ==
    [i \in 1..Len(Ascending({p \in 1..Len(css) : css[p] = "{"})) |->
        BlockAt(css, Ascending({p \in 1..Len(css) : css[p] = "{"})[i])]

EmittedBlocks == ParsedBlocks(tokensCss)

\* the block holds one declaration per entry of the mapping table, in the
\* order of the table
OnePerToken(block) ==
    /\ Len(block.declarations) = Len(farmMap.e)
    /\ \A i \in 1..Len(farmMap.e) :
          block.declarations[i].name = cssVarName(farmMap.e[i].k)

\* C14: the emitted CSS has exactly two selector blocks, light then dark,
\* and each holds exactly one declaration --farm-name: value; per mapped
\* token, in the order of the mapping table.
C14_OneDeclarationPerToken ==
    tokensCss # <<>> =>
        /\ Len(EmittedBlocks) = 2
        /\ EmittedBlocks[1].selector = lightSelector
        /\ EmittedBlocks[2].selector = darkSelector
        /\ OnePerToken(EmittedBlocks[1])
        /\ OnePerToken(EmittedBlocks[2])

\* no two tokens of the mapping table have the same CSS variable
VarsDiffer ==
    \A i, j \in 1..Len(farmMap.e) :
        cssVarName(farmMap.e[i].k) = cssVarName(farmMap.e[j].k) => i = j

EmittedCssWhenVarsDiffer == VarsDiffer => C14_OneDeclarationPerToken

\* the value a stylesheet gives the variable: the last declaration wins
RECURSIVE Declared(_, _, _)
Declared(declarations, i, name) ==
    IF i = 0 THEN <<"unset">>
    ELSE IF declarations[i].name = name THEN declarations[i].value
    ELSE Declared(declarations, i - 1, name)

\* theme[mode][mappingTable[t]] for the entry i of the mapping table
ThemeValue(mode, i) ==
    (CHOOSE e \in {Get(finexTheme, <<mode>>).e[j] : j \in 1..Len(Get(finexTheme, <<mode>>).e)} :
        e.k = farmMap.e[i].v.s).v.s

\* C15: parsing the emitted CSS back gives, for every mapped token t and
\* both modes, the value theme[mode][mappingTable[t]].
C15_CssRoundTrip ==
    tokensCss # <<>> =>
        \A i \in 1..Len(farmMap.e) :
            /\ Declared(EmittedBlocks[1].declarations, Len(EmittedBlocks[1].declarations),
                        cssVarName(farmMap.e[i].k)) = ThemeValue("light", i)
            /\ Declared(EmittedBlocks[2].declarations, Len(EmittedBlocks[2].declarations),
                        cssVarName(farmMap.e[i].k)) = ThemeValue("dark", i)

RoundTripWhenVarsDiffer == VarsDiffer => C15_CssRoundTrip

-----------------------------------------------------------------------------
(* The colour preset *)

\* the segments of the name between the "."
RECURSIVE Segments(_)
Segments(token) ==
    IF \A i \in 1..Len(token) : token[i] # "." THEN <<token>>
    ELSE <<SubSeq(token, 1, (CHOOSE i \in 1..Len(token) :
                                token[i] = "." /\ \A j \in 1..(i - 1) : token[j] # ".") - 1)>> \o
         Segments(SubSeq(token, (CHOOSE i \in 1..Len(token) :
                                token[i] = "." /\ \A j \in 1..(i - 1) : token[j] # ".") + 1,
                         Len(token)))

\* what is reached from the node along the segments
RECURSIVE Follow(_, _)
Follow(node, path) ==
    IF path = <<>> THEN node
    ELSE IF ~OwnKey(node, path[1]) THEN Undefined
    ELSE Follow((CHOOSE e \in {node.e[i] : i \in 1..Len(node.e)} : e.k = path[1]).v, Tail(path))

\* C16: in the colour preset, following the "."-segments of every mapped
\* token t reaches the leaf var(<CSS variable of t>); no token is lost or
\* replaced by another.
C16_PresetReachesEveryToken ==
    tailwindColors.kind = "ok" =>
        \A i \in 1..Len(farmMap.e) :
            Follow(tailwindColors.val, Segments(farmMap.e[i].k)) =
                Str(<<"var(">> \o cssVarName(farmMap.e[i].k) \o <<")">>)

\* no token of the mapping table is the beginning of the path of another
NoPathPrefix ==
    \A i, j \in 1..Len(farmMap.e) :
        (/\ Len(Segments(farmMap.e[i].k)) <= Len(Segments(farmMap.e[j].k))
         /\ SubSeq(Segments(farmMap.e[j].k), 1, Len(Segments(farmMap.e[i].k))) =
                Segments(farmMap.e[i].k)) => i = j

PresetWhenNoPathPrefix == NoPathPrefix => C16_PresetReachesEveryToken

-----------------------------------------------------------------------------
(* createTheme *)

Modes == {"light", "dark"}

Bundle == themeBundle.val

\* what the caller gave under the path of the options, Undefined if nothing
Option(path) == Follow(themeOptions, path)

\* the value the entry i of the mapping table must have in the mode: the
\* Farm Token override if one is given, else the value of its finex key in
\* the theme of the caller or of the package
ExpectedToken(mode, i) ==
    IF Option(<< <<"overrides">>, <<mode>>, farmMap.e[i].k >>) # Undefined
    THEN Option(<< <<"overrides">>, <<mode>>, farmMap.e[i].k >>)
    ELSE IF Option(<< <<"finexUi">> >>) # Undefined
    THEN Follow(Option(<< <<"finexUi">> >>), << <<mode>>, farmMap.e[i].v.s >>)
    ELSE Follow(finexTheme, << <<mode>>, farmMap.e[i].v.s >>)

\* the entries of the antd theme of the mode that are mapped to the Farm
\* Token and that no antd-level override replaces
MappedAntdPaths(mode, token) ==
    {<< <<"token">>, antdTokenMap.e[j].k >> :
        j \in {n \in 1..Len(antdTokenMap.e) :
                 /\ antdTokenMap.e[n].v.s = token
                 /\ Option(<< <<"antd">>, <<mode>>, <<"overrides">>, antdTokenMap.e[n].k >>)
                        = Undefined}}
    \cup
    {<< <<"components">>, m.name, m.sub >> :
        m \in {n \in ComponentEntries :
                 /\ n.token = token
                 /\ Option(<< <<"antd">>, <<mode>>, <<"components">>, n.name, n.sub >>)
                        = Undefined}}

\* C18: createTheme({finexUi, overrides}) gives, for every mode m and mapped
\* token t, tokens[m][t] = the override if one is given, else
\* finexUi[m][farmTokenMap[t]]; cssVars[m] maps the CSS variable of t to the
\* same value, and the antdTheme entries mapped to t carry the same value.
C18_CreateThemeValues ==
    themeBundle.kind = "ok" =>
        \A mode \in Modes : \A i \in 1..Len(farmMap.e) :
            /\ Follow(Bundle, << <<"tokens">>, <<mode>>, farmMap.e[i].k >>) = ExpectedToken(mode, i)
            /\ Follow(Bundle, << <<"cssVars">>, <<mode>>, cssVarName(farmMap.e[i].k) >>)
                  = ExpectedToken(mode, i)
            /\ \A path \in MappedAntdPaths(mode, farmMap.e[i].k) :
                  Follow(Bundle, << <<"antdTheme">>, <<mode>> >> \o path) = ExpectedToken(mode, i)

CreateThemeWhenVarsDiffer == VarsDiffer => C18_CreateThemeValues

\* the expected value of the Farm Token of that name
ExpectedOf(mode, token) ==
    ExpectedToken(mode, CHOOSE i \in 1..Len(farmMap.e) : farmMap.e[i].k = token)

\* the global antd token of the mode the priorities give: the global
\* override, else the value of the mapped Farm Token, else the radius
ExpectedGlobal(mode, key) ==
    IF Option(<< <<"antd">>, <<mode>>, <<"overrides">>, key >>) # Undefined
    THEN Option(<< <<"antd">>, <<mode>>, <<"overrides">>, key >>)
    ELSE IF \E m \in GlobalEntries : m.name = key
    THEN ExpectedOf(mode, (CHOOSE m \in GlobalEntries : m.name = key).token)
    ELSE IF key # <<"borderRadius">> THEN Undefined
    ELSE IF Option(<< <<"antd">>, <<mode>>, <<"borderRadius">> >>) # Undefined
    THEN Option(<< <<"antd">>, <<mode>>, <<"borderRadius">> >>)
    ELSE Number("8")

\* the component token the priorities give: the component override, else
\* the value of the mapped Farm Token
ExpectedComponent(mode, name, key) ==
    IF Option(<< <<"antd">>, <<mode>>, <<"components">>, name, key >>) # Undefined
    THEN Option(<< <<"antd">>, <<mode>>, <<"components">>, name, key >>)
    ELSE IF \E m \in ComponentEntries : m.name = name /\ m.sub = key
    THEN ExpectedOf(mode, (CHOOSE m \in ComponentEntries : m.name = name /\ m.sub = key).token)
    ELSE Undefined

AntdKeys == {<<"borderRadius">>, <<"colorPrimary">>, <<"colorLink">>}

ComponentKeys == {<<"colorBg">>, <<"colorText">>}

\* the options of the caller without the antd part
OptionsWithoutAntd ==
    Obj(SelectSeq(themeOptions.e, LAMBDA e : e.k # <<"antd">>))

BundleWithoutAntd ==
    createTheme(farmMap, antdTokenMap, antdComponentsMap, tokens.val, finexTheme,
                OptionsWithoutAntd).val

\* C19: in the antd theme of createTheme the mapped value is replaced by
\* the Farm Token override, that by the global antd.<mode>.overrides, and
\* antd.<mode>.components is merged per component over the mapped component
\* tokens (given keys win, the other mapped keys are kept); the antd-level
\* overrides change the antdTheme of their mode only, never tokens, cssVars
\* or the antdTheme of the other mode.
C19_AntdOverridePriority ==
    themeBundle.kind = "ok" =>
        /\ \A mode \in Modes :
              /\ \A key \in AntdKeys :
                    Follow(Bundle, << <<"antdTheme">>, <<mode>>, <<"token">>, key >>)
                        = ExpectedGlobal(mode, key)
              /\ \A key \in ComponentKeys :
                    Follow(Bundle, << <<"antdTheme">>, <<mode>>, <<"components">>, <<"Button">>, key >>)
                        = ExpectedComponent(mode, <<"Button">>, key)
              /\ Option(<< <<"antd">>, <<mode>> >>) = Undefined =>
                    Follow(Bundle, << <<"antdTheme">>, <<mode>> >>)
                        = Follow(BundleWithoutAntd, << <<"antdTheme">>, <<mode>> >>)
        /\ Follow(Bundle, << <<"tokens">> >>) = Follow(BundleWithoutAntd, << <<"tokens">> >>)
        /\ Follow(Bundle, << <<"cssVars">> >>) = Follow(BundleWithoutAntd, << <<"cssVars">> >>)

\* a Farm Token override, a global antd override of the token mapped to it
\* and a component override next to a mapped component token, in one call
C19_Witness ==
    /\ themeBundle.kind = "ok"
    /\ Option(<< <<"overrides">>, <<"light">>, <<"a">> >>) # Undefined
    /\ Option(<< <<"antd">>, <<"light">>, <<"overrides">>, <<"colorPrimary">> >>) # Undefined
    /\ \E m \in GlobalEntries : m.name = <<"colorPrimary">> /\ m.token = <<"a">>
    /\ Option(<< <<"antd">>, <<"light">>, <<"components">>, <<"Button">>, <<"colorBg">> >>)
          # Undefined
    /\ \E m \in ComponentEntries : m.token = <<"a">>

-----------------------------------------------------------------------------
(* The coverage check *)

\* the keys some entry of the global or of a component antd mapping names
Referenced ==
    {artifacts.antdTokenMap.e[i].v.s : i \in 1..Len(artifacts.antdTokenMap.e)} \cup
    UNION {{artifacts.antdComponentsMap.e[i].v.e[j].v.s :
                j \in 1..Len(artifacts.antdComponentsMap.e[i].v.e)} :
            i \in 1..Len(artifacts.antdComponentsMap.e)}

\* the entries of the allow-list of the check that runs
AllowListed ==
    IF checkVersion = "farm" THEN {<<"tips", "-", "grey">>} ELSE {<<"Tips", "-", "Grey">>}

\* a counted token or key that no mapping names and the allow-list does not
\* hold
UnexpectedUnmapped ==
    \E i \in 1..Len(CountedKeys) :
        CountedKeys[i] \notin Referenced /\ CountedKeys[i] \notin AllowListed

\* C17: the coverage check ends with exit code 1 if and only if it was
\* started with --strict and at least one token or key is referenced by
\* neither the global nor a component antd mapping and is not in the
\* expected-unused allow-list; every other completed run ends with exit code
\* 0, and the check never modifies an artifact.
C17_StrictExitCode ==
    /\ [](checkStep = "done" =>
            exitCode = IF "--strict" \in Range(argv) /\ UnexpectedUnmapped THEN 1 ELSE 0)
    /\ [][artifacts' = artifacts]_vars

\* the same for the runs that count no name every object inherits
StrictExitCodeWithoutInherited ==
    (checkStep = "done" /\ \A i \in 1..Len(CountedKeys) : CountedKeys[i] \notin ProtoKeys) =>
        exitCode = IF "--strict" \in Range(argv) /\ UnexpectedUnmapped THEN 1 ELSE 0

\* a strict run that ends with 0 although "constructor" is mapped nowhere
ScenarioInheritedAllowed ==
    /\ checkStep = "done"
    /\ "--strict" \in Range(argv)
    /\ unused = << <<"constructor">> >>
    /\ exitCode = 0

-----------------------------------------------------------------------------
(* The Modal, not controlled *)

ModalOpen == IsOpen(modalProps, uncontrolledOpen)

\* C20: a Modal that is not controlled starts closed; a click on its
\* trigger opens it unless disabled is true, and then the click leaves it
\* closed, however many clicks there are; a click on the close button, or a
\* call of the onClose given to function children, closes the open modal.
C20_UncontrolledOpenClose ==
    /\ (~isControlled(modalProps) => ~ModalOpen)
    /\ [][~isControlled(modalProps) =>
            /\ (TriggerClick /\ ~modalProps.disabled) => ModalOpen'
            /\ (TriggerClick /\ modalProps.disabled) => (ModalOpen' = ModalOpen)
            /\ (CloseClick \/ ChildOnClose) => ~ModalOpen']_vars

\* the trigger opened the modal and the close button closed it again
C20_Witness ==
    /\ ~isControlled(modalProps)
    /\ lastEvent = "close"
    /\ ~ModalOpen
    /\ calls = << <<"onOpenChange", TRUE>>, <<"trigger.onClick">>,
                  <<"onOpenChange", FALSE>>, <<"onCancel">> >>

-----------------------------------------------------------------------------
(* The Modal: OK, cancel and late completions *)

\* the step asks for the modal to be closed: onOpenChange(false) is the call
\* after those made by the onOk of the step, and a Modal that is not
\* controlled is closed
ClosesModal ==
    /\ \E i \in (Len(calls) + 1)..Len(calls') : calls'[i] = <<"onOpenChange", FALSE>>
    /\ ~isControlled(modalProps) => ~IsOpen(modalProps, uncontrolledOpen')

\* the step makes no call of onOpenChange or onCancel and leaves the modal
\* as it is
LeavesModal ==
    /\ \A i \in (Len(calls) + 1)..Len(calls') : calls'[i] = <<"onOk">>
    /\ uncontrolledOpen' = uncontrolledOpen

\* C21: a click on OK of an open Modal closes it when onOk is not supplied
\* or when onOk returns or resolves to a value other than false; when onOk
\* returns or resolves false, or throws or rejects, the modal stays open.
C21_OkClosesUnlessFalse ==
    [][/\ (OkClick /\ modalProps.onOk \in {"none", "returns"}) => ClosesModal
       /\ (OkClick /\ modalProps.onOk \in {"returnsFalse", "throws", "async"}) => LeavesModal
       /\ (OkSettle /\ lastEvent' = "resolved") => ClosesModal
       /\ (OkSettle /\ lastEvent' \in {"resolvedFalse", "rejected"}) => LeavesModal]_vars

\* an asynchronous onOk resolved to a value and the modal, opened by its
\* trigger, is closed
C21_Witness ==
    /\ ~isControlled(modalProps)
    /\ lastEvent = "resolved"
    /\ ~ModalOpen
    /\ calls = << <<"onOpenChange", TRUE>>, <<"trigger.onClick">>, <<"onOk">>,
                  <<"onOpenChange", FALSE>>, <<"onCancel">> >>

\* an onOk that returned false left the modal open
ScenarioOkReturnsFalse ==
    /\ ~isControlled(modalProps)
    /\ modalProps.onOk = "returnsFalse"
    /\ lastEvent = "ok"
    /\ ModalOpen

\* the close button, the cancel button, the mask and the Esc key
CancelSources == {"close", "cancel", "mask", "esc"}

\* C25: onCancel is the close callback of the close button, the cancel
\* button, a click on the mask and Esc: it is invoked exactly when the modal
\* is closed through one of these four sources and through no other path.
C25_OnCancelOnlyFromCancelSources ==
    [][(\E i \in (Len(calls) + 1)..Len(calls') : calls'[i] = <<"onCancel">>)
            <=> lastEvent' \in CancelSources]_vars

\* the four sources always invoke onCancel
CancelSourcesInvokeOnCancel ==
    [][lastEvent' \in CancelSources =>
            \E i \in (Len(calls) + 1)..Len(calls') : calls'[i] = <<"onCancel">>]_vars

\* a click on OK without onOk invoked onCancel
ScenarioOkInvokesOnCancel ==
    /\ modalProps.onOk = "none"
    /\ lastEvent = "ok"
    /\ calls # <<>>
    /\ calls[Len(calls)] = <<"onCancel">>

\* the modal was asked to close after the last call of onOk
ClosedSinceOk ==
    \E i, j \in 1..Len(calls) :
        /\ i < j
        /\ calls[i] = <<"onOk">>
        /\ \A k \in (i + 1)..Len(calls) : calls[k] # <<"onOk">>
        /\ calls[j] = <<"onOpenChange", FALSE>>

\* C29: in every interleaving of trigger clicks, close and cancel clicks and
\* completions of a pending asynchronous onOk, a completion that arrives
\* after the modal was closed has no effect: it invokes neither onCancel nor
\* onOpenChange(false) again and does not close a modal that was opened
\* again in the meantime.
C29_LateCompletionHasNoEffect ==
    [][(OkSettle /\ ClosedSinceOk) =>
            calls' = calls /\ uncontrolledOpen' = uncontrolledOpen]_vars

\* a completion closed the modal that was opened again after a close
ScenarioLateCompletionCloses ==
    /\ ~isControlled(modalProps)
    /\ lastEvent = "resolved"
    /\ ~ModalOpen
    /\ calls = << <<"onOpenChange", TRUE>>, <<"onOk">>, <<"onOpenChange", FALSE>>, <<"onCancel">>,
                  <<"onOpenChange", TRUE>>, <<"onOpenChange", FALSE>>, <<"onCancel">> >>

-----------------------------------------------------------------------------
(* What the claims say about flat keys, the three normalisers and the
   order of the sync script's writes *)

GroupLeaves(r, suffix) == LeavesUnder(GroupEnding(r, suffix), <<>>)

ColorLeaves(r, suffix) == {pl \in GroupLeaves(r, suffix) : IsColorLeaf(pl.leaf)}

\* leaves at different paths have different flat keys, and the mode map has
\* one key for each colour leaf
FlatKeysIdentifyPaths(map, r, suffix) ==
    /\ \A p, q \in GroupLeaves(r, suffix) :
          p.path # q.path => toFinexKey(p.path) # toFinexKey(q.path)
    /\ Cardinality(OwnKeys(map)) = Cardinality(ColorLeaves(r, suffix))

\* C23: within one theme group two leaves at different paths never receive
\* the same flat key, so flattening never overwrites the value of one token
\* with that of another: the mode map has as many keys as the group has
\* colour leaves.
C23_FlatKeyIdentifiesPath ==
    (entry = "sync" /\ Normalized /\ IsExport(raw)) =>
        /\ FlatKeysIdentifyPaths(GetOwn(finexUi.theme, <<"light">>), raw, "/Light")
        /\ FlatKeysIdentifyPaths(GetOwn(finexUi.theme, <<"dark">>), raw, "/Dark")

\* What does hold: a mode map never has more keys than its group has colour
\* leaves, and every key is the flat key of one of them.
FlatKeysComeFromColorLeaves ==
    (entry = "sync" /\ Normalized /\ IsExport(raw)) =>
        /\ OwnKeys(GetOwn(finexUi.theme, <<"light">>)) = ColorKeys(raw, "/Light")
        /\ OwnKeys(GetOwn(finexUi.theme, <<"dark">>)) = ColorKeys(raw, "/Dark")

\* The collision: the leaves at A/Bg and at A-Bg of one group share a key.
ScenarioFlatKeyCollision ==
    /\ entry = "sync" /\ Normalized /\ IsExport(raw)
    /\ \E p, q \in GroupLeaves(raw, "/Light") :
          /\ p.path # q.path
          /\ toFinexKey(p.path) = toFinexKey(q.path)
          /\ IsColorLeaf(p.leaf) /\ IsColorLeaf(q.leaf)
    /\ Cardinality(OwnKeys(GetOwn(finexUi.theme, <<"light">>))) <
          Cardinality(ColorLeaves(raw, "/Light"))

\* two outcomes of normalising one input: both fail, or both return the
\* same Resolved Theme
Agree(a, b) ==
    IF a.kind = "ok" THEN b.kind = "ok" /\ b.theme = a.theme ELSE b.kind # "ok"

\* C24: for every raw input the normalisers of the runtime loader, of the
\* build script and of the sync script either all fail or all return the
\* same Resolved Theme.
C24_NormalizersAgree ==
    finexUi.kind # "none" =>
        /\ Agree(finexUi, resolveFinexUi(raw))
        /\ Agree(finexUi, resolveFinexUiRuntime(raw))
        /\ Agree(finexUi, resolveFinexUiBuild(raw))

\* What does hold: the runtime loader and the build script agree, and the
\* three agree on every input that fails in one of them.
RuntimeAndBuildAgree ==
    /\ Agree(resolveFinexUiRuntime(raw), resolveFinexUiBuild(raw))
    /\ resolveFinexUi(raw).kind = resolveFinexUiRuntime(raw).kind

\* The disagreement: the sync script and the runtime loader both succeed on
\* raw and return different themes.
ScenarioNormalizersDisagree ==
    /\ entry = "runtime" /\ Normalized
    /\ resolveFinexUi(raw).kind = "ok"
    /\ resolveFinexUi(raw).theme # finexUi.theme
    /\ \E pl \in GroupLeaves(raw, "/Light") : ~IsColorLeaf(pl.leaf)

\* C27: a run of the sync script that ends in a key-skew error has written
\* no output file: src/finex-ui.json is as it was before the run.
C27_NothingWrittenBeforeKeySkew ==
    (entry = "sync" /\ mainError.kind = "KeySkewError") => fileFinexUi = Undefined

\* What the run that ends in a key-skew error has written: the skewed theme.
ScenarioSkewedThemeWritten ==
    /\ entry = "sync" /\ pc = "failed"
    /\ mainError.kind = "KeySkewError"
    /\ fileFinexUi = finexUi.theme
    /\ ~KeySetsEqual(fileFinexUi)

-----------------------------------------------------------------------------
(* What the claims say about data-theme *)

NoneMounted == \A p \in 1..MaxProviders : ~providers[p].mounted

\* C30: for FarmProviders with scope "document", under any order of mounts,
\* mode changes and unmounts, once every provider has unmounted data-theme
\* equals the value it had before the first mount.
C30_UnmountRestoresDataTheme ==
    (docsPhase = "idle" /\ NoneMounted) => dataTheme = themeBefore

\* What does hold: the provider that unmounts puts back what it captured.
UnmountRestoresCaptured ==
    [][\A p \in 1..MaxProviders :
          (Unmount(p) /\ providers[p].scope = "document") => dataTheme' = providers[p].prev]_vars

\* Two providers that unmount in the order they mounted in: the second one
\* to unmount puts back the mode of the first, which is gone.
ScenarioUnmountInMountOrder ==
    /\ docsPhase = "idle" /\ NoneMounted
    /\ themeBefore = "null"
    /\ dataTheme = "light"

\* the attribute names a mode itself
Explicit(attr) == attr \in ThemeModes

\* the mode comes from the system colour scheme
FollowsSystem == MqlChangeUpdates(prefersColor) /\ hasMatchMedia

SystemMode == IF systemDark THEN "dark" ELSE "light"

\* nothing is queued: the effects ran, no mutation record waits and the
\* state is committed
DocsSettled ==
    /\ docsPhase = "observing"
    /\ ~observerPending
    /\ providers[1].mode = docsMode

\* C22: the docs theme provider follows html[data-prefers-color]: once the
\* attribute is "dark" or "light", data-theme eventually equals it (unless
\* the attribute changes again first); while the attribute is absent or
\* "auto", data-theme eventually equals the system colour scheme; and a
\* change of the system scheme leaves the mode alone while the attribute is
\* "light" or "dark".
C22_DocsFollowPrefersColor ==
    /\ \A m \in ThemeModes :
          (prefersColor = m) ~> (dataTheme = m \/ prefersColor # m)
    /\ \A m \in ThemeModes :
          (FollowsSystem /\ SystemMode = m) ~> (dataTheme = m \/ ~(FollowsSystem /\ SystemMode = m))
    /\ [](DocsSettled /\ Explicit(prefersColor) => dataTheme = prefersColor)
    /\ [](DocsSettled /\ FollowsSystem => dataTheme = SystemMode)
    /\ [][(SystemChange /\ Explicit(prefersColor)) =>
             (docsMode' = docsMode /\ dataTheme' = dataTheme)]_vars

\* C22 witness: the system is light and data-theme was absent, the attribute
\* is "dark", and the settled provider has written "dark".
C22_Witness ==
    /\ DocsSettled
    /\ prefersColor = "dark"
    /\ ~systemDark
    /\ themeBefore = "null"
    /\ dataTheme = "dark"

\* The system changed to dark while the attribute is absent: data-theme
\* follows.
ScenarioFollowsSystem ==
    /\ DocsSettled
    /\ prefersColor = "null" /\ hasMatchMedia /\ systemDark
    /\ themeBefore = "light"
    /\ dataTheme = "dark"

-----------------------------------------------------------------------------
(* What the claims say about calls of createTheme *)

\* getToken(mode, token) as it is after the step
GetTokenAfter(mode, i) == Get(Get(tokens.val, <<mode>>), farmMap.e[i].k)'

\* C26: a call of createTheme, the first or a later one, with any options,
\* leaves the exported tokens, cssVars and antdTheme and every
\* getToken(mode, token) as they were built at load time, and what it
\* returns is what createTheme gives for its options and the built-in
\* theme, whatever was called before.
C26_CreateThemeIsPure ==
    [][CreateTheme =>
          /\ tokens = Computed(BuiltinTokens)
          /\ tokens' = tokens /\ cssVars' = cssVars /\ antdTheme' = antdTheme
          /\ \A mode \in Modes : \A i \in 1..Len(farmMap.e) :
                GetTokenAfter(mode, i) = Get(Get(BuiltinTokens, <<mode>>), farmMap.e[i].k)
          /\ themeBundle' = createTheme(farmMap, antdTokenMap, antdComponentsMap,
                                        BuiltinTokens, finexTheme, themeOptions')]_vars

\* C26 witness: createTheme returned tokens that differ from the built-in
\* ones, which are as they were.
C26_Witness ==
    /\ themeBundle.kind = "ok"
    /\ OptionalGet(themeOptions, <<"overrides">>) # Undefined
    /\ Get(themeBundle.val, <<"tokens">>) # tokens.val
    /\ tokens = Computed(BuiltinTokens)

-----------------------------------------------------------------------------
(* What the claims say about the files the sync script writes *)

SyncWritten == program = "sync" /\ phase = "written"

FarmNames == {farmMap.e[i].k : i \in 1..Len(farmMap.e)}

\* the keys of finexUi.light whose Farm Token is that name
KeysNamed(token) == {k \in OwnKeys(FinexLight) : toFarmToken(k) = token}

\* C28: the files a successful run of the sync script writes pass the
\* validation at load: the Farm Token names match the pattern and each
\* comes from one finex key only (two keys with one name abort the run),
\* each Farm Token maps to a key that light and dark both hold, and every
\* value of the two antd mappings is a key of the farm-token map.
C28_SyncOutputPassesValidation ==
    /\ SyncWritten =>
          /\ assertThemeIntegrity(TRUE, finexTheme, farmMap, antdTokenMap, antdComponentsMap)
                = IntegrityOk
          /\ \A token \in FarmNames :
                /\ MatchesPattern(token)
                /\ ResolvesInBothModes(token)
                /\ Cardinality(KeysNamed(token)) = 1
          /\ Len(farmMap.e) = Cardinality(OwnKeys(FinexLight))
          /\ \A m \in GlobalEntries \cup ComponentEntries : OwnKey(farmMap, m.token)
    /\ (program = "sync" /\ \E token \in {toFarmToken(k) : k \in OwnKeys(FinexLight)} :
                               Cardinality(KeysNamed(token)) > 1)
          => phase \in {"start", "failed"}

\* C28 witness: a run wrote a farm-token map of two tokens and antd
\* mappings that name both.
C28_Witness ==
    /\ SyncWritten
    /\ Len(farmMap.e) = 2
    /\ {m.token : m \in GlobalEntries} = {BtnA, TipsGrey}
    /\ ComponentEntries # {}

\* A run whose keys give no token for a rule ends in the error of the pick
\* and writes no mapping.
ScenarioNoCandidate ==
    /\ program = "sync" /\ phase = "failed"
    /\ integrity.kind = "NoCandidateError"
    /\ antdTokenMap = Obj(<<>>)

====
